---- MODULE Spec2Model ----
(***************************************************************************)
(* The adaptive partitioned mining scheduler of Commit-Level-TDD-Detection *)
(* (mining/repo_miner.py, mining/partitioner.py, mining/worker.py,         *)
(* utilities/config.py): quota sampling, shard planning, the result loop   *)
(* with retry / split / terminal bookkeeping, and the completion marker.   *)
(***************************************************************************)
EXTENDS Integers, Sequences, FiniteSets, TLC

VARIABLES
  repos,            \* the 'mined-repos' collection: language -> list of project documents
  completed,        \* the persisted set of completed project names
  env,              \* what the environment of this model may do (runs, timeouts, scheduling)
  pc,               \* "idle" | "prep" | "mining" | "closing"
  runs,             \* number of runs started so far
  already_mined,    \* Repo_miner.__init__: the snapshot of the completed names
  projects,         \* self.projects
  prepared,         \* indices of self.projects whose prepare_job future was consumed
  jobs,             \* run(): the planned shards, in the order the plans arrived
  future_to_job,    \* run(): the jobs of the live futures, in submission order
  shards_remaining, \* run(): defaultdict(int)
  project_errors,   \* run(): defaultdict(bool)
  retry_counts,     \* run(): defaultdict(int), keyed by the job tuple
  stop_event,       \* manager.Event()
  interrupted,      \* the operator interrupted this run
  timeouts_left,    \* how many more TIMED OUT results the workers of this run may return
  fate,             \* the outcome fixed for every execution of every planned shard, if fixed
  executions,       \* history: job -> number of results of that job processed in this run
  failed,           \* history: projects with a shard that ended without success in this run
  marks,            \* history: project -> calls of mark_project_as_completed in this run
  q_in,             \* the arguments of a single fill_quota call
  q_out,            \* the list that call returned
  crawler_stop_event, \* ApacheGitHubMiner._stop_event
  crawl_pc,         \* where the crawler's main thread stands
  tasks,            \* the calls handed to the crawler's thread pool
  all_candidates,   \* fetch_candidate_repos: candidates collected from the pages
  results,          \* ApacheGitHubMiner.run: repository records collected
  check_in,         \* the stop event and the response of a single _check_rate_limit call
  check_out,        \* what that call raised
  lookups,          \* history: creation-date lookups the planner has sent in this run
  lookup_limited,   \* history: a lookup of this run was answered with a rate-limit status
  late_pending,     \* after an interrupt: live calls that were not cancelled and not started
  late_started,     \* history: worker invocations that started after the interrupt
  late_mined,       \* history: those of them that went on to mine
  w_args,           \* one mine_repo invocation: its arguments
  w_work,           \* what the unit of work of that invocation does when it is left alone
  w_pc,             \* where that invocation stands
  w_alarm,          \* its alarm is armed
  w_result,         \* what it returned
  received,         \* what the controller took its result for
  t_in,             \* the arguments of a single computation on dates
  t_out,            \* what that computation gave
  commit_store,     \* the commit collection of one project: hash -> documents stored
  relevant,         \* the commits of the repository that touch a file worth keeping
  units,            \* the units of work of two shards of that project
  sort_pc,          \* sort_by_commit_count: where the call stands
  sort_tasks,       \* what _analyze_project comes to for each project, and whether it ran
  sort_done,        \* the finished _analyze_project calls the loop has not taken yet
  scored_projects,  \* sort_by_commit_count: the projects whose result the loop took
  aborted,          \* sort_by_commit_count: the flag of lines 209-235
  sort_db,          \* history: bulk_write and create_index calls on the collection
  sort_ret          \* what sort_by_commit_count returned

(* The variables of the miner and those of the crawler. *)
mine_vars == << repos, completed, env, pc, runs, already_mined, projects, prepared, jobs,
                future_to_job, shards_remaining, project_errors, retry_counts, stop_event,
                interrupted, timeouts_left, fate, executions, failed, marks, q_in, q_out,
                lookups, lookup_limited, late_pending, late_started, late_mined >>

plan_vars == << lookups, lookup_limited >>

late_vars == << late_pending, late_started, late_mined >>

worker_vars == << w_args, w_work, w_pc, w_alarm, w_result, received >>

crawl_vars == << crawler_stop_event, crawl_pc, tasks, all_candidates, results, check_in,
                 check_out >>

call_vars == << t_in, t_out >>

store_vars == << commit_store, relevant, units >>

sort_vars == << sort_pc, sort_tasks, sort_done, scored_projects, aborted, sort_db, sort_ret >>

rest_vars == << call_vars, store_vars, sort_vars >>

vars == << mine_vars, crawl_vars, worker_vars, rest_vars >>

-----------------------------------------------------------------------------
(* utilities/config.py *)
MAX_RETRIES == 3
SUB_SHARDS == 12
MAX_SPLIT_DEPTH == 3
(* the default of fill_quota's target_quota *)
TARGET_QUOTA == 60

(* Bounds of the model. *)
MaxRuns == 2         \* runs of the miner, one after the other
MaxYears == 1        \* yearly shards planned for a C++ project
MaxTimeouts == 2     \* TIMED OUT results per run
DeepTimeouts == 10   \* TIMED OUT results per run when one lineage is followed to the depth cap
MaxAhead == 2        \* a result is processed while at most MaxAhead - 1 older futures are live
DeepAhead == 1       \* the same, when one lineage is followed to the depth cap
YearSpan == 1728     \* length of the planner's 365-day window, in instants of the model
MaxNames == 3        \* candidate names of a single fill_quota call
MaxTarget == 2       \* target_quota of a single fill_quota call
MaxLate == 1         \* calls an interrupt finds handed to the pool but not started
MaxPages == 2        \* pages of repositories the crawler fetches
MaxWindow == 60      \* longest window of a shard that is split, in instants
MaxSorted == 3       \* projects sort_by_commit_count analyses
MaxCommits == 3      \* commits of the repository whose units of work are followed
Boundary == 1        \* the date at which the first shard ends and the second one starts
BatchSize == 2       \* batch_size of the commit processor
UnitTimeouts == 1    \* times a unit of work is cut short by its alarm
PlanYears == 5       \* calendar years from 2000 on in which prepare_job is called
RunQuota == 1        \* target_quota of the runs that are followed until a quota is met

(* Python's None in a job tuple; instants are integers >= 0. *)
None == 0 - 1

Min(a, b) == IF a < b THEN a ELSE b

SeqToSet(s) == { s[i] : i \in DOMAIN s }

(* d[k] of a defaultdict(int) modelled as a function on the keys it holds. *)
Get(d, k) == IF k \in DOMAIN d THEN d[k] ELSE 0

Put(d, k, v) == [x \in (DOMAIN d) \cup {k} |-> IF x = k THEN v ELSE d[x]]

-----------------------------------------------------------------------------
(* The project documents of the model's 'mined-repos' collection. *)
Doc(n, u, l) == [name |-> n, repo_url |-> u, language |-> l]

(* get_java_projects_to_mine, get_python_projects_to_mine,                  *)
(* get_cpp_projects_to_mine: the documents of one language.                 *)
get_projects_to_mine(language) == repos[language]

AllDocs == UNION { SeqToSet(repos[l]) : l \in DOMAIN repos }

AllNames == { d.name : d \in AllDocs }

(* get_completed_project_names(): the persisted set of completed names. *)
get_completed_project_names == completed

-----------------------------------------------------------------------------
(* Repo_miner.__init__.fill_quota *)

(* completed = [p for p in candidates if p['name'] in already_mined] *)
CompletedOf(candidates, mined) == SelectSeq(candidates, LAMBDA p : p.name \in mined)

(* A filter that keeps the completed candidates. *)
AvailableOfAll(candidates, mined) == candidates

(* available = [p for p in candidates if p['name'] not in already_mined] *)
AvailableOf(candidates, mined) == SelectSeq(candidates, LAMBDA p : p.name \notin mined)

(* random.sample(population, k): every list of k elements drawn from k      *)
(* distinct positions of the population, in any order.                      *)
random_sample(population, k) ==
  { [i \in 1..k |-> population[f[i]]] :
      f \in { g \in [1..k -> DOMAIN population] :
                \A a, b \in 1..k : a # b => g[a] # g[b] } }

(* A sampler that draws from all candidates instead of the available ones. *)
fill_quota_from_candidates(candidates, mined, target_quota) ==
  LET current_count == Len(CompletedOf(candidates, mined))
      count_to_take == Min(Len(candidates), target_quota - current_count)
  IN  IF current_count >= target_quota \/ count_to_take = 0 THEN { << >> }
      ELSE random_sample(candidates, count_to_take)

(* A sampler that takes the whole target, whatever is completed already. *)
fill_quota_whole_target(candidates, mined, target_quota) ==
  LET available     == AvailableOf(candidates, mined)
      count_to_take == Min(Len(available), target_quota)
  IN  IF count_to_take = 0 THEN { << >> }
      ELSE random_sample(available, count_to_take)

(* The set of lists one call of fill_quota may return. *)
fill_quota(candidates, mined, target_quota) ==
  LET current_count == Len(CompletedOf(candidates, mined))
      needed        == target_quota - current_count
      available     == AvailableOf(candidates, mined)
      count_to_take == Min(Len(available), needed)
  IN  IF current_count >= target_quota THEN { << >> }
      ELSE IF count_to_take = 0 THEN { << >> }
      ELSE random_sample(available, count_to_take)

-----------------------------------------------------------------------------
(* mining/partitioner.py *)

(* The job tuple (name, url, start, end, language, depth). *)
Job(n, u, s, e, l, d) ==
  [p_name |-> n, url |-> u, start |-> s, end |-> e, language |-> l, depth |-> d]

(* The while loop of prepare_job: windows of 365 days from current_date, the *)
(* last one capped at now.                                                   *)
RECURSIVE YearWindows(_, _)
YearWindows(current_date, now) ==
  IF current_date < now
    THEN LET next_date == Min(current_date + YearSpan, now)
         IN  << << current_date, next_date >> >> \o
             (IF next_date >= now THEN << >> ELSE YearWindows(next_date, now))
    ELSE << >>

(* prepare_job(project); instant 0 is datetime(start_year, 1, 1) and now is  *)
(* datetime.now() on that axis. A document without a usable URL gives [].    *)
prepare_job(project, now) ==
  IF project.repo_url = "" THEN << >>
  ELSE IF project.language = "C++"
    THEN LET w == YearWindows(0, now)
         IN  [i \in DOMAIN w |->
               Job(project.name, project.repo_url, w[i][1], w[i][2], project.language, 0)]
    ELSE << Job(project.name, project.repo_url, None, None, project.language, 0) >>

(* Dates as whole days from 1 January of the planner's default start year;   *)
(* datetime(year) is datetime(year, 1, 1).                                   *)
DEFAULT_START_YEAR == 2000

IsLeap(year) == (year % 4 = 0 /\ year % 100 # 0) \/ year % 400 = 0

DaysIn(year) == IF IsLeap(year) THEN 366 ELSE 365

RECURSIVE datetime(_)
datetime(year) ==
  IF year <= DEFAULT_START_YEAR THEN 0 ELSE datetime(year - 1) + DaysIn(year - 1)

(* The .year of a date. *)
RECURSIVE YearFrom(_, _)
YearFrom(year, date) == IF date < datetime(year + 1) THEN year ELSE YearFrom(year + 1, date)

YearOf(date) == YearFrom(DEFAULT_START_YEAR, date)

(* Line 58: current_date + timedelta(days=365) *)
timedelta_days == 365

NextDate(current_date) == current_date + timedelta_days

(* Lines 53-72 on days: the windows from current_date, the last one capped   *)
(* at now.                                                                   *)
RECURSIVE DateWindows(_, _)
DateWindows(current_date, now) ==
  IF current_date < now
    THEN LET next_date == Min(NextDate(current_date), now)
         IN  << << current_date, next_date >> >> \o
             (IF next_date >= now THEN << >> ELSE DateWindows(next_date, now))
    ELSE << >>

(* Lines 24-50: what the creation-date lookup of a C++ project comes to. Only *)
(* a 200 answer with a created_at that starts with a number changes          *)
(* start_year; everything else, whatever is raised included, leaves 2000.    *)
Lookups == { "not github", "raises", "times out", "not 200", "no created_at",
             "created_at no number", "created_at" }

StartYear(lookup, created_year) ==
  IF lookup = "created_at" THEN created_year ELSE DEFAULT_START_YEAR

(* A planning that gives up when the lookup raises. *)
prepare_cpp_job_or_abort(project, lookup, created_year, now) ==
  IF lookup \in { "raises", "times out" } THEN << >>
  ELSE LET w == DateWindows(datetime(StartYear(lookup, created_year)), now)
       IN  [i \in DOMAIN w |->
             Job(project.name, project.repo_url, w[i][1], w[i][2], project.language, 0)]

(* prepare_job of a C++ project with a usable URL, on days. *)
prepare_cpp_job(project, lookup, created_year, now) ==
  LET start_year == StartYear(lookup, created_year)
      w == DateWindows(datetime(start_year), now)
  IN  [i \in DOMAIN w |->
        Job(project.name, project.repo_url, w[i][1], w[i][2], project.language, 0)]

(* The values of now the model plans with: whole years after instant 0. *)
Nows == { k * YearSpan : k \in 1..MaxYears }

-----------------------------------------------------------------------------
(* apache_miner.py: the rate-limited crawler ApacheGitHubMiner.              *)

(* A response is its status code and the rate-limit headers it carries; a    *)
(* header that is present has a text.                                        *)
Statuses == { 200, 403, 404, 429, 500 }

HeaderTexts == { "", "0", "5000", "soon" }

Remaining == "X-RateLimit-Remaining"

Reset == "X-RateLimit-Reset"

Headers == UNION { [S -> HeaderTexts] : S \in SUBSET { Remaining, Reset } }

Responses == [status_code : Statuses, headers : Headers]

(* response.headers.get(name): the text in a list of one, or the empty list  *)
(* for None.                                                                 *)
headers_get(headers, name) == IF name \in DOMAIN headers THEN << headers[name] >> ELSE << >>

(* int(text) raises ValueError unless the text is a decimal integer. *)
IsIntLiteral(text) == text \in { "0", "5000" }

int(text) == IF text = "0" THEN 0 ELSE 5000

(* What _check_rate_limit does besides touching the stop event. *)
Returns == "returns"

RateLimitExceededError == "RateLimitExceededError"

ValueError == "ValueError"

(* A check that resets the stop event once it has reported it. *)
StopSeenResets(event) == FALSE

(* Lines 57-58: the stop event is found set and is left as it is. *)
StopSeen(event) == event

(* Line 62, for a Remaining header that is absent or an integer. *)
is_limited(response) ==
  LET remaining == headers_get(response.headers, Remaining)
  IN  \/ response.status_code \in { 403, 429 }
      \/ remaining # << >> /\ int(remaining[1]) = 0

(* A check that raises on a limited response and leaves the stop event      *)
(* alone.                                                                    *)
LimitCheckNoSet(response) ==
  LET remaining == headers_get(response.headers, Remaining)
      reset_val == headers_get(response.headers, Reset)
  IN  IF /\ response.status_code \notin { 403, 429 }
         /\ remaining # << >>
         /\ ~IsIntLiteral(remaining[1])
        THEN [raised |-> ValueError, set |-> FALSE]
      ELSE IF ~is_limited(response)
        THEN [raised |-> Returns, set |-> FALSE]
      ELSE IF reset_val # << >> /\ reset_val[1] # "" /\ ~IsIntLiteral(reset_val[1])
        THEN [raised |-> ValueError, set |-> FALSE]
      ELSE [raised |-> RateLimitExceededError, set |-> FALSE]

(* Lines 60-70, reached with the stop event unset: what is raised and        *)
(* whether the stop event was set before.                                    *)
LimitCheck(response) ==
  LET remaining == headers_get(response.headers, Remaining)
      reset_val == headers_get(response.headers, Reset)
  IN  IF /\ response.status_code \notin { 403, 429 }
         /\ remaining # << >>
         /\ ~IsIntLiteral(remaining[1])
        THEN [raised |-> ValueError, set |-> FALSE]
      ELSE IF ~is_limited(response)
        THEN [raised |-> Returns, set |-> FALSE]
      ELSE IF reset_val # << >> /\ reset_val[1] # "" /\ ~IsIntLiteral(reset_val[1])
        THEN [raised |-> ValueError, set |-> FALSE]
      ELSE [raised |-> RateLimitExceededError, set |-> TRUE]

(* _check_rate_limit(response) run without interruption on the given stop    *)
(* event: what it raises and the stop event afterwards.                      *)
check_rate_limit(event, response) ==
  IF event THEN [raised |-> RateLimitExceededError, event |-> StopSeen(event)]
  ELSE LET l == LimitCheck(response)
       IN  [raised |-> l.raised, event |-> event \/ l.set]

(* The call of a pool thread: _fetch_page(page_num) or process_repo(repo).   *)
(*   pc        where the call stands                                         *)
(*   late      the stop event was set when the call started                  *)
(*   late_in   the stop event was set when its get_commit_count started      *)
(*   sent      requests the call has issued                                  *)
(*   response  the response it holds                                         *)
(*   found     what it hands back: candidates of the page, or 1 for a repo   *)
(*             record                                                        *)
(*   commits   the return of get_commit_count that gave the record its       *)
(*             count: "stop" (line 185), "counted" (lines 191-197),          *)
(*             "not 200" (line 198), "limit" (lines 199-200), "exception"    *)
(*             (lines 201-202), or "none" without a count                    *)
NoResponse == [status_code |-> 0, headers |-> << >>]

Task(kind) ==
  [kind |-> kind, pc |-> "queued", late |-> FALSE, late_in |-> FALSE, sent |-> 0,
   response |-> NoResponse, found |-> 0, commits |-> "none"]

(* The responses the crawler's requests get in the model. *)
CrawlResponses ==
  { [status_code |-> 200, headers |-> (Remaining :> "5000")],
    [status_code |-> 200, headers |-> (Remaining :> "0") @@ (Reset :> "5000")],
    [status_code |-> 403, headers |-> (Reset :> "soon")],
    [status_code |-> 404, headers |-> << >>] }

(* The crawler before run(). *)
InitCrawler ==
  /\ crawler_stop_event = FALSE
  /\ crawl_pc = "idle"
  /\ tasks = << >>
  /\ all_candidates = 0
  /\ results = 0
  /\ check_in = [event |-> FALSE, response |-> NoResponse]
  /\ check_out = [returned |-> FALSE, raised |-> Returns]

(* fetch_candidate_repos, lines 136-155: get_total_org_repos issues its      *)
(* request and checks the response; with a count it opens the pool of page   *)
(* fetches, without one the crawl is over.                                   *)
CrawlStart(response, total_pages) ==
  /\ crawl_pc = "idle"
  /\ pc = "idle"
  /\ runs = 0
  /\ LET c == check_rate_limit(crawler_stop_event, response)
         pages == IF c.raised = Returns /\ response.status_code = 200 THEN total_pages ELSE 0
     IN  /\ crawler_stop_event' = c.event
         /\ tasks' = [t \in 1..pages |-> Task("page")]
         /\ crawl_pc' = IF pages = 0 THEN "done" ELSE "pages"
  /\ all_candidates' = 0
  /\ results' = 0
  /\ UNCHANGED << check_in, check_out, mine_vars, worker_vars, rest_vars >>

(* A pool thread takes a queued call and starts it. *)
TaskStart(t) ==
  /\ crawl_pc \in { "pages", "repos" }
  /\ t \in DOMAIN tasks
  /\ tasks[t].pc = "queued"
  /\ tasks' = [tasks EXCEPT ![t].pc = "entry", ![t].late = crawler_stop_event]
  /\ UNCHANGED << crawler_stop_event, crawl_pc, all_candidates, results, check_in, check_out,
                  mine_vars, worker_vars, rest_vars >>

(* A page fetch that skips its entry check. *)
EntryUnchecked(event) == "get"

(* Lines 92-93, 185 and 206-207: the check of the stop event at the entry of *)
(* a worker function.                                                        *)
Entry(event) == IF event THEN "done" ELSE "get"

(* _fetch_page, lines 92-93, and get_commit_count, line 185: the entry       *)
(* check; with the stop event set the call returns [] or 0.                  *)
TaskEntry(t) ==
  /\ t \in DOMAIN tasks
  /\ \/ tasks[t].kind = "page" /\ tasks[t].pc = "entry"
     \/ tasks[t].kind = "repo" /\ tasks[t].pc = "count_entry"
  /\ tasks' = [tasks EXCEPT ![t].pc = Entry(crawler_stop_event),
                            ![t].found = IF tasks[t].kind = "repo" THEN 1 ELSE 0,
                            ![t].commits = IF tasks[t].kind = "repo" /\ crawler_stop_event
                                             THEN "stop" ELSE "none"]
  /\ UNCHANGED << crawler_stop_event, crawl_pc, all_candidates, results, check_in, check_out,
                  mine_vars, worker_vars, rest_vars >>

(* process_repo, lines 206-209: the entry check; with the stop event set the *)
(* call returns None, otherwise it calls get_commit_count.                   *)
RepoEntry(t) ==
  /\ t \in DOMAIN tasks
  /\ tasks[t].kind = "repo"
  /\ tasks[t].pc = "entry"
  /\ tasks' = [tasks EXCEPT ![t].pc = IF Entry(crawler_stop_event) = "done" THEN "done"
                                      ELSE "call_count"]
  /\ UNCHANGED << crawler_stop_event, crawl_pc, all_candidates, results, check_in, check_out,
                  mine_vars, worker_vars, rest_vars >>

(* process_repo, line 209: get_commit_count starts. *)
CountStart(t) ==
  /\ t \in DOMAIN tasks
  /\ tasks[t].pc = "call_count"
  /\ tasks' = [tasks EXCEPT ![t].pc = "count_entry", ![t].late_in = crawler_stop_event]
  /\ UNCHANGED << crawler_stop_event, crawl_pc, all_candidates, results, check_in, check_out,
                  mine_vars, worker_vars, rest_vars >>

(* Lines 100 and 188: session.get sends the request; it hands back a         *)
(* response, or raises and the "except Exception" branch ends the call.      *)
TaskGet(t, response, raises) ==
  /\ t \in DOMAIN tasks
  /\ tasks[t].pc = "get"
  /\ tasks' = IF raises
                THEN [tasks EXCEPT ![t].pc = "done", ![t].sent = @ + 1,
                                   ![t].commits = IF tasks[t].kind = "repo" THEN "exception"
                                                  ELSE "none"]
                ELSE [tasks EXCEPT ![t].pc = "check", ![t].sent = @ + 1,
                                   ![t].response = response]
  /\ UNCHANGED << crawler_stop_event, crawl_pc, all_candidates, results, check_in, check_out,
                  mine_vars, worker_vars, rest_vars >>

(* _check_rate_limit, lines 57-58, in a pool thread: with the stop event set *)
(* RateLimitExceededError is raised and the caller's handler ends the call.  *)
TaskCheckStop(t) ==
  /\ t \in DOMAIN tasks
  /\ tasks[t].pc = "check"
  /\ tasks' = IF crawler_stop_event
                THEN [tasks EXCEPT ![t].pc = "done", ![t].response = NoResponse,
                                   ![t].commits = IF tasks[t].kind = "repo" THEN "limit"
                                                  ELSE "none"]
                ELSE [tasks EXCEPT ![t].pc = "limit"]
  /\ crawler_stop_event' = IF crawler_stop_event THEN StopSeen(crawler_stop_event)
                           ELSE crawler_stop_event
  /\ UNCHANGED << crawl_pc, all_candidates, results, check_in, check_out, mine_vars, worker_vars, rest_vars >>

(* _check_rate_limit, lines 60-70, in a pool thread, and the rest of the     *)
(* call: a limited response sets the stop event; whatever is raised ends the *)
(* call empty-handed; a page with status 200 hands back its candidates       *)
(* (lines 102-114), any other page raises in raise_for_status.               *)
TaskCheckLimit(t, candidates) ==
  /\ t \in DOMAIN tasks
  /\ tasks[t].pc = "limit"
  /\ LET l == LimitCheck(tasks[t].response)
         ok == l.raised = Returns /\ tasks[t].response.status_code = 200
     IN  /\ crawler_stop_event' = (crawler_stop_event \/ l.set)
         /\ tasks' = [tasks EXCEPT ![t].pc = "done", ![t].response = NoResponse,
                                   ![t].found = IF tasks[t].kind = "repo" THEN 1
                                                ELSE IF ok THEN candidates ELSE 0,
                                   ![t].commits =
                                     IF tasks[t].kind # "repo" THEN "none"
                                     ELSE IF l.raised = RateLimitExceededError THEN "limit"
                                     ELSE IF l.raised = ValueError THEN "exception"
                                     ELSE IF ok THEN "counted" ELSE "not 200"]
  /\ UNCHANGED << crawl_pc, all_candidates, results, check_in, check_out, mine_vars, worker_vars, rest_vars >>

(* Lines 159-168 and 233-240: the main thread takes the next finished call   *)
(* of the pool. With the stop event set it breaks and the pool is            *)
(* terminated: the queued calls are dropped. Otherwise the result is added.  *)
TakeResult(t) ==
  /\ crawl_pc \in { "pages", "repos" }
  /\ t \in DOMAIN tasks
  /\ tasks[t].pc = "done"
  /\ IF crawler_stop_event
       THEN /\ crawl_pc' = IF crawl_pc = "pages" THEN "pages_break" ELSE "repos_break"
            /\ tasks' = [u \in DOMAIN tasks |->
                          IF tasks[u].pc = "queued" THEN [tasks[u] EXCEPT !.pc = "dropped"]
                          ELSE tasks[u]]
            /\ UNCHANGED << all_candidates, results >>
       ELSE /\ tasks' = [tasks EXCEPT ![t].pc = "taken"]
            /\ all_candidates' = IF crawl_pc = "pages" THEN all_candidates + tasks[t].found
                                 ELSE all_candidates
            /\ results' = IF crawl_pc = "repos" THEN results + tasks[t].found ELSE results
            /\ UNCHANGED crawl_pc
  /\ UNCHANGED << crawler_stop_event, check_in, check_out, mine_vars, worker_vars, rest_vars >>

(* No call of the pool is queued or under way. *)
PoolIdle == \A t \in DOMAIN tasks : tasks[t].pc \in { "done", "taken", "dropped" }

(* Lines 170-182 and 220-233: every page was taken, or the loop broke and    *)
(* the pool has wound down. With the stop event set or without candidates    *)
(* the crawl is over; otherwise the pool of process_repo calls opens.        *)
PagesEnd ==
  /\ \/ crawl_pc = "pages" /\ \A t \in DOMAIN tasks : tasks[t].pc = "taken"
     \/ crawl_pc = "pages_break" /\ PoolIdle
  /\ IF crawler_stop_event \/ all_candidates = 0
       THEN /\ crawl_pc' = "done"
            /\ tasks' = << >>
       ELSE /\ crawl_pc' = "repos"
            /\ tasks' = [t \in 1..all_candidates |-> Task("repo")]
  /\ UNCHANGED << crawler_stop_event, all_candidates, results, check_in, check_out, mine_vars, worker_vars, rest_vars >>

(* Lines 242-255: every repository was taken, or the loop broke and the pool *)
(* has wound down. An aborted crawl without results returns; otherwise the   *)
(* results are saved.                                                        *)
ReposEnd ==
  /\ \/ crawl_pc = "repos" /\ \A t \in DOMAIN tasks : tasks[t].pc = "taken"
     \/ crawl_pc = "repos_break" /\ PoolIdle
  /\ crawl_pc' = IF crawler_stop_event /\ results = 0 THEN "done" ELSE "saved"
  /\ tasks' = << >>
  /\ UNCHANGED << crawler_stop_event, all_candidates, results, check_in, check_out, mine_vars, worker_vars, rest_vars >>

NextCrawl ==
  \/ \E response \in CrawlResponses, total_pages \in 0..MaxPages :
       CrawlStart(response, total_pages)
  \/ \E t \in DOMAIN tasks : TaskStart(t)
  \/ \E t \in DOMAIN tasks : TaskEntry(t)
  \/ \E t \in DOMAIN tasks : RepoEntry(t)
  \/ \E t \in DOMAIN tasks : CountStart(t)
  \/ \E t \in DOMAIN tasks, response \in CrawlResponses, raises \in BOOLEAN :
       TaskGet(t, response, raises)
  \/ \E t \in DOMAIN tasks : TaskCheckStop(t)
  \/ \E t \in DOMAIN tasks, candidates \in 0..1 : TaskCheckLimit(t, candidates)
  \/ \E t \in DOMAIN tasks : TakeResult(t)
  \/ PagesEnd
  \/ ReposEnd

-----------------------------------------------------------------------------
(* Repo_miner.run, phase 2: the processing of one result.                   *)
(* The controller's state is the record                                      *)
(*   [future_to_job, shards_remaining, project_errors, retry_counts,         *)
(*    completed, marks]                                                      *)
(* where completed is the persisted set and marks counts the calls of        *)
(* mark_project_as_completed.                                                *)

(* What mine_repo hands back, as the controller tells the results apart:     *)
(*   NONE       None (the stop event was set at the worker's entry)          *)
(*   OK         error is None                                                *)
(*   NOCOMMITS  an error string holding "No commits found"                   *)
(*   TIMEOUT    the error string "TIMED OUT"                                 *)
(*   ERROR      any other error string                                       *)
(*   EXC        future.result() raises                                       *)
Results == { "NONE", "OK", "NOCOMMITS", "TIMEOUT", "ERROR", "EXC" }

(* timedelta / int: true division rounded to the nearest instant, ties to    *)
(* the even one.                                                             *)
TimedeltaDiv(a, b) ==
  LET q == a \div b
      r == a % b
  IN  IF 2 * r < b THEN q
      ELSE IF 2 * r > b THEN q + 1
      ELSE IF q % 2 = 0 THEN q ELSE q + 1

(* The body of "for _ in range(config.SUB_SHARDS)": the windows of the       *)
(* children still to create, from current_segment_start on.                  *)
RECURSIVE Segments(_, _, _, _)
Segments(n, current_segment_start, segment_duration, end) ==
  IF n = 0 THEN << >>
  ELSE LET segment_end == Min(current_segment_start + segment_duration, end)
       IN  << << current_segment_start, segment_end >> >> \o
           Segments(n - 1, segment_end, segment_duration, end)

(* A split that leaves the depth of the children at the parent's. *)
ChildDepthKept(depth) == depth

(* The depth of the children of a split. *)
ChildDepth(depth) == depth + 1

(* new_job for every child of a split, in creation order. *)
SplitJobs(job) ==
  LET total_duration   == job.end - job.start
      segment_duration == TimedeltaDiv(total_duration, SUB_SHARDS)
      w == Segments(SUB_SHARDS, job.start, segment_duration, job.end)
  IN  [i \in DOMAIN w |->
        Job(job.p_name, job.url, w[i][1], w[i][2], job.language, ChildDepth(job.depth))]

(* mark_project_as_completed(p_name): the name joins the persisted set. *)
mark_project_as_completed(db, p_name) == db \cup {p_name}

(* project_errors[p_name] of the defaultdict(bool) *)
ErrorOf(pe, p_name) == IF p_name \in DOMAIN pe THEN pe[p_name] ELSE FALSE

(* A completion decision that does not wait for the count to reach 0. *)
CheckCompletedEveryShard(c, p_name) ==
  IF ~ErrorOf(c.project_errors, p_name)
    THEN [c EXCEPT !.completed = mark_project_as_completed(c.completed, p_name),
                   !.marks = Put(c.marks, p_name, Get(c.marks, p_name) + 1)]
    ELSE c

(* Lines 193-198: the completion decision once a count was decremented. *)
CheckCompleted(c, p_name) ==
  IF Get(c.shards_remaining, p_name) = 0 /\ ~ErrorOf(c.project_errors, p_name)
    THEN [c EXCEPT !.completed = mark_project_as_completed(c.completed, p_name),
                   !.marks = Put(c.marks, p_name, Get(c.marks, p_name) + 1)]
    ELSE c

(* Lines 191-198: shards_remaining[p_name] -= 1 and the completion decision. *)
Finish(c, p_name) ==
  CheckCompleted(
    [c EXCEPT !.shards_remaining =
                Put(c.shards_remaining, p_name, Get(c.shards_remaining, p_name) - 1)],
    p_name)

(* An error handling that gives up the live futures. *)
OnErrorDropsLive(c, p_name) ==
  [c EXCEPT !.project_errors = Put(c.project_errors, p_name, TRUE),
            !.future_to_job = << >>]

(* Lines 187-189: an error string that is neither a timeout nor "No commits  *)
(* found" sets project_errors[p_name], then the shard finishes.              *)
OnError(c, p_name) ==
  Finish([c EXCEPT !.project_errors = Put(c.project_errors, p_name, TRUE)], p_name)

(* An exception handler that forgets the decrement. *)
OnExceptionKeepsCount(c, p_name) == c

(* Lines 203-207: future.result() raised. *)
OnException(c, p_name) ==
  [c EXCEPT !.shards_remaining =
              Put(c.shards_remaining, p_name, Get(c.shards_remaining, p_name) - 1)]

(* Lines 149-167: the split. Every child gets retry count 0 and a future;    *)
(* the parent is not submitted again.                                        *)
RECURSIVE SubmitChildren(_, _)
SubmitChildren(c, children) ==
  IF children = << >> THEN c
  ELSE LET new_job == Head(children)
       IN  SubmitChildren(
             [c EXCEPT !.retry_counts = Put(c.retry_counts, new_job, 0),
                       !.future_to_job = Append(c.future_to_job, new_job)],
             Tail(children))

(* shards_remaining[p_name] += config.SUB_SHARDS - 1 *)
SplitIncrement == SUB_SHARDS - 1

OnSplit(c, job) ==
  LET c2 == SubmitChildren(c, SplitJobs(job))
  IN  [c2 EXCEPT !.shards_remaining =
         Put(c2.shards_remaining, job.p_name,
             Get(c2.shards_remaining, job.p_name) + SplitIncrement)]

(* Lines 170-176: the standard retry submits the same job again. *)
OnRetry(c, job) == [c EXCEPT !.future_to_job = Append(c.future_to_job, job)]

(* A retry that is always granted. *)
MayRetryAlways(current_retries) == TRUE

(* One retry too few. *)
MayRetryOneLess(current_retries) == current_retries < MAX_RETRIES

(* Line 146 *)
MayRetry(current_retries) == current_retries <= MAX_RETRIES

(* A split check that does not look at the window. *)
SplitCheckNoWindow(current_retries, job) ==
  /\ current_retries = 2
  /\ job.depth < MAX_SPLIT_DEPTH

(* A split check without the depth limit. *)
SplitCheckAnyDepth(current_retries, job) ==
  /\ current_retries = 2
  /\ job.start # None
  /\ job.end # None

(* A split check that waits for the third timeout. *)
SplitCheckThird(current_retries, job) ==
  /\ current_retries = 3
  /\ job.start # None
  /\ job.end # None
  /\ job.depth < MAX_SPLIT_DEPTH

(* Line 148: "if current_retries == 2 and start and end and depth < MAX_SPLIT_DEPTH" *)
SplitCheck(current_retries, job) ==
  /\ current_retries = 2
  /\ job.start # None
  /\ job.end # None
  /\ job.depth < MAX_SPLIT_DEPTH

(* Lines 139-181 and the fall-through to 184-198 of a timeout past the       *)
(* last retry.                                                               *)
OnTimeout(c, job) ==
  LET current_retries == Get(c.retry_counts, job) + 1
      c1 == [c EXCEPT !.retry_counts = Put(c.retry_counts, job, current_retries)]
  IN  IF MayRetry(current_retries)
        THEN IF SplitCheck(current_retries, job)
               THEN OnSplit(c1, job)
               ELSE OnRetry(c1, job)
        ELSE Finish([c1 EXCEPT !.project_errors = Put(c1.project_errors, job.p_name, TRUE)],
                    job.p_name)

(* job_data = future_to_job.pop(future) for the future at position i *)
Pop(q, i) == [k \in 1..(Len(q) - 1) |-> IF k < i THEN q[k] ELSE q[k + 1]]

(* One pass of the body of "for future in done" (lines 129-207) for the     *)
(* future at position i of the live set, whose result is result.             *)
Handle(c, i, result) ==
  LET job_data == c.future_to_job[i]
      p_name   == job_data.p_name
      c0       == [c EXCEPT !.future_to_job = Pop(c.future_to_job, i)]
  IN  CASE result = "NONE"      -> c0
        [] result = "TIMEOUT"   -> OnTimeout(c0, job_data)
        [] result = "ERROR"     -> OnError(c0, p_name)
        [] result = "EXC"       -> OnException(c0, p_name)
        [] OTHER                -> Finish(c0, p_name)

(* The controller's state as a record, and back. *)
Controller ==
  [future_to_job |-> future_to_job, shards_remaining |-> shards_remaining,
   project_errors |-> project_errors, retry_counts |-> retry_counts,
   completed |-> completed, marks |-> marks]

(* Lines 94-96: the planned shards counted per project. *)
RECURSIVE CountShards(_, _)
CountShards(js, sr) ==
  IF js = << >> THEN sr
  ELSE CountShards(Tail(js), Put(sr, Head(js).p_name, Get(sr, Head(js).p_name) + 1))

-----------------------------------------------------------------------------
(* mining/worker.py: one invocation of mine_repo in a pool process.          *)

(* utilities/config.py: the hard timeout of a worker task, in seconds. *)
WORKER_TIMEOUT == 2700

(* The raw URLs an invocation is called with, and clean_url of each: an      *)
(* empty URL gives None; the others are stripped of blanks and of trailing   *)
(* slashes and "github.com:" becomes "github.com/". None and the empty text  *)
(* are alike to "if not repo_url".                                           *)
RawUrls == { "", " / ", "https://github.com/a/b/", "git@github.com:a/b" }

clean_url(url) ==
  CASE url = ""                        -> ""
    [] url = " / "                     -> ""
    [] url = "https://github.com/a/b/" -> "https://github.com/a/b"
    [] url = "git@github.com:a/b"      -> "git@github.com/a/b"

(* What the unit of work (Repository and process_commits, lines 55-68) does  *)
(* when nothing cuts it short: it is done with a number of new commits, it   *)
(* raises with a message, or it hangs. The message is str(e) of line 80: it  *)
(* is empty for an exception built without arguments.                        *)
Messages == { "", "No commits found", "fatal: not a git repository", "read TIMED OUT" }

WorkKinds ==
  [kind : { "done" }, added : 0..1, message : { "" }] \cup
  [kind : { "raises" }, added : { 0 }, message : Messages] \cup
  [kind : { "hangs" }, added : { 0 }, message : { "" }]

(* The results of an invocation: None, a tuple (project_name, added,         *)
(* initial_count, error) with "" for the error None, or an exception that    *)
(* leaves mine_repo.                                                         *)
NoResult == [kind |-> "pending", added |-> 0, error |-> ""]

ReturnsNone == [kind |-> "none", added |-> 0, error |-> ""]

ReturnsTuple(added, error) == [kind |-> "tuple", added |-> added, error |-> error]

TimedOut == ReturnsTuple(0, "TIMED OUT")

(* An entry check that lets every invocation through. *)
WorkerNeverStops(event) == FALSE

(* Line 33: "if stop_event.is_set(): return None" *)
WorkerStops(event) == event

(* An alarm that is never armed. *)
signal_alarm_never(seconds) == FALSE

(* signal.alarm(seconds): the alarm is armed unless seconds is 0. *)
signal_alarm(seconds) == seconds > 0

(* "TIMED OUT" in str(error) and "No commits found" in str(error) *)
HasTimedOut(error) == error \in { "TIMED OUT", "read TIMED OUT" }

HasNoCommits(error) == error = "No commits found"

(* repo_miner.py, lines 133-189: what the controller takes the result of a   *)
(* future for.                                                               *)
Classify(result) ==
  CASE result.kind = "raised" -> "EXC"
    [] result.kind = "none"   -> "NONE"
    [] OTHER -> IF result.error # "" /\ HasTimedOut(result.error) THEN "TIMEOUT"
                ELSE IF result.error # "" /\ ~HasNoCommits(result.error) THEN "ERROR"
                ELSE IF result.error # "" THEN "NOCOMMITS"
                ELSE "OK"

NotReceived == "-"

(* No invocation is followed. *)
InitWorker ==
  /\ w_args = [raw_url |-> "", stop_event |-> FALSE]
  /\ w_work = [kind |-> "done", added |-> 0, message |-> ""]
  /\ w_pc = "idle"
  /\ w_alarm = FALSE
  /\ w_result = NoResult
  /\ received = NotReceived

(* Lines 30-37: the entry check; an invocation that is let through arms its  *)
(* alarm.                                                                    *)
WorkerEntry ==
  /\ w_pc = "called"
  /\ IF WorkerStops(w_args.stop_event)
       THEN /\ w_pc' = "returned"
            /\ w_result' = ReturnsNone
            /\ UNCHANGED w_alarm
       ELSE /\ w_pc' = "armed"
            /\ w_alarm' = signal_alarm(WORKER_TIMEOUT)
            /\ UNCHANGED w_result
  /\ UNCHANGED << w_args, w_work, received, mine_vars, crawl_vars, rest_vars >>

(* Lines 40-43: without a usable URL the alarm is disabled and the shard is  *)
(* skipped; otherwise the unit of work starts.                               *)
WorkerCleanUrl ==
  /\ w_pc = "armed"
  /\ IF clean_url(w_args.raw_url) = ""
       THEN /\ w_pc' = "returned"
            /\ w_alarm' = FALSE
            /\ w_result' = ReturnsTuple(0, "Skipped: Invalid or missing URL")
       ELSE /\ w_pc' = "working"
            /\ UNCHANGED << w_alarm, w_result >>
  /\ UNCHANGED << w_args, w_work, received, mine_vars, crawl_vars, rest_vars >>

(* Lines 45-84: the unit of work ends by itself: its counts are returned, or *)
(* the text of what it raised; the finally clause disables the alarm.        *)
WorkEnds ==
  /\ w_pc = "working"
  /\ w_work.kind # "hangs"
  /\ w_pc' = "returned"
  /\ w_alarm' = FALSE
  /\ w_result' = IF w_work.kind = "done" THEN ReturnsTuple(w_work.added, "")
                 ELSE ReturnsTuple(0, w_work.message)
  /\ UNCHANGED << w_args, w_work, received, mine_vars, crawl_vars, rest_vars >>

(* Lines 13-15 and 76-84: the alarm goes off while the unit of work runs;    *)
(* the handler raises TimeoutException in it and mine_repo returns TIMED     *)
(* OUT. The alarm counts WORKER_TIMEOUT seconds: it does not go off between  *)
(* line 37 and the try.                                                      *)
AlarmExpires ==
  /\ w_pc = "working"
  /\ w_alarm
  /\ w_pc' = "returned"
  /\ w_alarm' = FALSE
  /\ w_result' = TimedOut
  /\ UNCHANGED << w_args, w_work, received, mine_vars, crawl_vars, rest_vars >>

(* repo_miner.py, lines 133-139: the controller takes the result. *)
Receive ==
  /\ w_pc = "returned"
  /\ received = NotReceived
  /\ received' = Classify(w_result)
  /\ UNCHANGED << w_args, w_work, w_pc, w_alarm, w_result, mine_vars, crawl_vars, rest_vars >>

NextWorker ==
  \/ WorkerEntry
  \/ WorkerCleanUrl
  \/ WorkEnds
  \/ AlarmExpires
  \/ Receive

-----------------------------------------------------------------------------
(* miners/commit_processor.py and db.py: the unit of work of a shard and the *)
(* commit collection. A commit is its hash; the commit with hash h has the   *)
(* committer date h.                                                         *)
Hashes == 1..MaxCommits

(* db.get_existing_commit_hashes(project_name): the hashes with a document. *)
get_existing_commit_hashes(col) == { h \in DOMAIN col : col[h] > 0 }

(* col.insert_many(commits): every document of the list is added, whether or *)
(* not the collection holds one with the same project and hash.              *)
RECURSIVE insert_many(_, _)
insert_many(col, commits) ==
  IF commits = << >> THEN col
  ELSE insert_many(Put(col, Head(commits), Get(col, Head(commits)) + 1), Tail(commits))

(* db.save_commit_batch(commits) when the database takes the batch. *)
save_commit_batch(col, commits) == IF commits = << >> THEN col ELSE insert_many(col, commits)

(* Repository(since=start_date, to=end_date).traverse_commits(): the commits *)
(* dated from since to to, both included, oldest first.                      *)
traverse_commits(since, to) ==
  IF to < since THEN << >> ELSE [i \in 1..(to - since + 1) |-> since + i - 1]

(* A duplicate check that looks at nothing. *)
IsExistingNever(hash, existing_hashes) == FALSE

(* Line 44: "if commit.hash in existing_hashes" *)
IsExisting(hash, existing_hashes) == hash \in existing_hashes

(* The windows of the two shards share the instant Boundary. *)
Units == { 1, 2 }

WindowOf(u) == IF u = 1 THEN << 1, Boundary >> ELSE << Boundary, MaxCommits >>

(* A unit of work that was not started: history, the attempts of the shard,  *)
(* what its attempts have saved, and whether its last attempt returned.      *)
IdleUnit ==
  [pc |-> "idle", existing_hashes |-> {}, initial_count |-> 0, todo |-> << >>,
   commits_buffer |-> << >>, new_commits_mined |-> 0, saves |-> 0, saved |-> {},
   flushed |-> {}, attempts |-> 0, succeeded |-> FALSE, timeouts_left |-> UnitTimeouts]

(* Lines 35-39: the unit starts: it takes the hashes stored for the project. *)
UnitStart(u) ==
  /\ u \in DOMAIN units
  /\ units[u].pc = "idle"
  /\ units[u].attempts < 2
  /\ units' = [units EXCEPT
       ![u] = [@ EXCEPT !.pc = "traversing",
                        !.existing_hashes = get_existing_commit_hashes(commit_store),
                        !.initial_count = Cardinality(get_existing_commit_hashes(commit_store)),
                        !.todo = traverse_commits(WindowOf(u)[1], WindowOf(u)[2]),
                        !.commits_buffer = << >>,
                        !.new_commits_mined = 0,
                        !.saves = 0,
                        !.saved = {},
                        !.attempts = @ + 1]]
  /\ UNCHANGED << commit_store, relevant, call_vars, sort_vars, mine_vars, crawl_vars, worker_vars >>

(* Lines 42-77: one turn of the loop over the commits. *)
UnitStep(u) ==
  /\ u \in DOMAIN units
  /\ units[u].pc = "traversing"
  /\ units[u].todo # << >>
  /\ LET commit == Head(units[u].todo)
         rest   == [units[u] EXCEPT !.todo = Tail(@)]
     IN  IF IsExisting(commit, units[u].existing_hashes) \/ commit \notin relevant
           THEN /\ units' = [units EXCEPT ![u] = rest]
                /\ UNCHANGED commit_store
           ELSE LET commits_buffer == Append(units[u].commits_buffer, commit)
                IN  IF Len(commits_buffer) >= BatchSize
                      THEN /\ commit_store' = save_commit_batch(commit_store, commits_buffer)
                           /\ units' = [units EXCEPT
                                ![u] = [rest EXCEPT !.commits_buffer = << >>,
                                                    !.new_commits_mined = @ + 1,
                                                    !.saves = @ + 1,
                                                    !.saved = @ \cup SeqToSet(commits_buffer)]]
                      ELSE /\ units' = [units EXCEPT
                                ![u] = [rest EXCEPT !.commits_buffer = commits_buffer,
                                                    !.new_commits_mined = @ + 1]]
                           /\ UNCHANGED commit_store
  /\ UNCHANGED << relevant, call_vars, sort_vars, mine_vars, crawl_vars, worker_vars >>

(* Lines 79-83: the loop is over, what is left in the buffer is saved and    *)
(* the unit returns.                                                         *)
UnitEnd(u) ==
  /\ u \in DOMAIN units
  /\ units[u].pc = "traversing"
  /\ units[u].todo = << >>
  /\ commit_store' = save_commit_batch(commit_store, units[u].commits_buffer)
  /\ units' = [units EXCEPT
       ![u] = [@ EXCEPT !.pc = "returned",
                        !.commits_buffer = << >>,
                        !.saves = IF units[u].commits_buffer = << >> THEN @ ELSE @ + 1,
                        !.saved = @ \cup SeqToSet(units[u].commits_buffer)]]
  /\ UNCHANGED << relevant, call_vars, sort_vars, mine_vars, crawl_vars, worker_vars >>

(* worker.py, lines 13-15 and 76-77: the alarm cuts the unit short; what it  *)
(* had flushed stays in the collection, its buffer is lost, and the          *)
(* controller submits the shard again.                                       *)
UnitTimesOut(u) ==
  /\ u \in DOMAIN units
  /\ units[u].pc = "traversing"
  /\ units[u].timeouts_left > 0
  /\ units' = [units EXCEPT
       ![u] = [@ EXCEPT !.pc = "idle",
                        !.commits_buffer = << >>,
                        !.flushed = @ \cup units[u].saved,
                        !.attempts = 0,
                        !.timeouts_left = @ - 1]]
  /\ UNCHANGED << commit_store, relevant, call_vars, sort_vars, mine_vars, crawl_vars, worker_vars >>

(* The shard is mined again after its unit of work returned. *)
UnitAgain(u) ==
  /\ u \in DOMAIN units
  /\ units[u].pc = "returned"
  /\ units[u].attempts < 2
  /\ units' = [units EXCEPT ![u] = [@ EXCEPT !.pc = "idle", !.succeeded = TRUE]]
  /\ UNCHANGED << commit_store, relevant, call_vars, sort_vars, mine_vars, crawl_vars, worker_vars >>

NextStore ==
  \E u \in Units :
    \/ UnitStart(u)
    \/ UnitStep(u)
    \/ UnitEnd(u)
    \/ UnitTimesOut(u)
    \/ UnitAgain(u)

-----------------------------------------------------------------------------
(* sort_projects.py: sort_by_commit_count and its thread pool.               *)

(* What the requests of one project come to:                                 *)
(*   counted          every link gives a count                               *)
(*   api error        a link gives a status that is neither 200 nor a limit  *)
(*   connection error session.get or the parsing of the answer raises        *)
(*   rate limited     a link is answered with a rate-limit response          *)
(*   bad reset        the same, with an X-RateLimit-Reset that is no number  *)
(*   no links         the urls of the project are not a list                 *)
SortKinds == { "counted", "api error", "connection error", "rate limited", "bad reset",
               "no links" }

(* get_commit_count, lines 115-162: a count, minus the status code, or what  *)
(* it raises; int(reset_val) of line 131 raises inside the try, so a bad     *)
(* reset ends in the Exception of line 160.                                  *)
get_commit_count(kind) ==
  CASE kind = "counted"          -> "count"
    [] kind = "api error"        -> "minus status"
    [] kind = "connection error" -> "Exception"
    [] kind = "rate limited"     -> "RateLimitExceededError"
    [] kind = "bad reset"        -> "Exception"
    [] OTHER                     -> "count"

(* _analyze_project, lines 164-190: it returns its tuple, with the errors it *)
(* collected, or lets RateLimitExceededError through; the for of line 172    *)
(* is outside the try.                                                       *)
analyze_project(kind) ==
  IF kind = "no links" THEN "TypeError"
  ELSE IF get_commit_count(kind) = "RateLimitExceededError" THEN "RateLimitExceededError"
  ELSE "result"

(* A loop whose handlers leave the flag alone. *)
AbortsNever(outcome) == FALSE

(* Lines 228-235: both except clauses set aborted. *)
Aborts(outcome) == outcome \in { "RateLimitExceededError", "TypeError" }

(* Lines 201-212: the call starts, the pool is given every project. *)
SortStart ==
  /\ sort_pc = "called"
  /\ sort_pc' = "analysing"
  /\ UNCHANGED << sort_tasks, sort_done, scored_projects, aborted, sort_db, sort_ret,
                  call_vars, store_vars, mine_vars, crawl_vars, worker_vars >>

(* A pool thread runs _analyze_project for project t to its end. *)
AnalyzeProject(t) ==
  /\ sort_pc = "analysing"
  /\ t \in DOMAIN sort_tasks
  /\ ~sort_tasks[t].ran
  /\ sort_tasks' = [sort_tasks EXCEPT ![t].ran = TRUE]
  /\ sort_done' = Append(sort_done, t)
  /\ UNCHANGED << sort_pc, scored_projects, aborted, sort_db, sort_ret,
                  call_vars, store_vars, mine_vars, crawl_vars, worker_vars >>

(* Lines 216-239: the loop takes the next finished call: a result is added   *)
(* to scored_projects, an exception leaves the loop and the pool is          *)
(* terminated.                                                               *)
SortTake ==
  /\ sort_pc = "analysing"
  /\ sort_done # << >>
  /\ LET outcome == analyze_project(sort_tasks[Head(sort_done)].kind)
     IN  IF outcome = "result"
           THEN /\ scored_projects' = Append(scored_projects, Head(sort_done))
                /\ UNCHANGED << sort_pc, aborted >>
           ELSE /\ aborted' = Aborts(outcome)
                /\ sort_pc' = "after"
                /\ UNCHANGED scored_projects
  /\ sort_done' = Tail(sort_done)
  /\ UNCHANGED << sort_tasks, sort_db, sort_ret,
                  call_vars, store_vars, mine_vars, crawl_vars, worker_vars >>

(* Lines 216 and 236-239: every project was taken, the loop ends. *)
SortLoopEnd ==
  /\ sort_pc = "analysing"
  /\ Len(scored_projects) = Len(sort_tasks)
  /\ sort_pc' = "after"
  /\ UNCHANGED << sort_tasks, sort_done, scored_projects, aborted, sort_db, sort_ret,
                  call_vars, store_vars, mine_vars, crawl_vars, worker_vars >>

(* Lines 243-272: an aborted call returns 0; otherwise the counts are        *)
(* written with one bulk_write, the index is created and the number of       *)
(* projects is returned.                                                     *)
SortFinish ==
  /\ sort_pc = "after"
  /\ sort_pc' = "returned"
  /\ IF aborted
       THEN /\ sort_ret' = 0
            /\ UNCHANGED sort_db
       ELSE /\ sort_ret' = Len(scored_projects)
            /\ sort_db' = IF scored_projects # << >>
                            THEN [bulk_write |-> sort_db.bulk_write + 1,
                                  create_index |-> sort_db.create_index + 1]
                            ELSE sort_db
  /\ UNCHANGED << sort_tasks, sort_done, scored_projects, aborted,
                  call_vars, store_vars, mine_vars, crawl_vars, worker_vars >>

NextSort ==
  \/ SortStart
  \/ \E t \in DOMAIN sort_tasks : AnalyzeProject(t)
  \/ SortTake
  \/ SortLoopEnd
  \/ SortFinish

-----------------------------------------------------------------------------
(* The environment of a run. *)

(* No outcome is fixed in advance. *)
NoFate == << >>

(* The outcomes that may be fixed for the executions of one planned shard. *)
FateChoices ==
  { << "OK" >>, << "NOCOMMITS" >>, << "ERROR" >>, << "EXC" >>, << "TIMEOUT", "OK" >> }

(* The result fixed for the given execution of a job: planned shard k has    *)
(* the results fate[k], in order; every other execution succeeds.            *)
FateOf(job, attempt) ==
  IF \E k \in DOMAIN fate : jobs[k] = job /\ attempt <= Len(fate[k])
    THEN LET k == CHOOSE k \in DOMAIN fate : jobs[k] = job IN fate[k][attempt]
    ELSE "OK"

(* The shards that may time out when only one lineage is followed. *)
FirstLineage(job) == job.start = None \/ job.start = 0

(* The results a worker may hand back for the future at position i. *)
MayReturn(i, result) ==
  LET job == future_to_job[i]
  IN  /\ (result = "NONE") <=> stop_event
      /\ result = "TIMEOUT" =>
           /\ timeouts_left > 0
           /\ env.any_timeout \/ FirstLineage(job)
      /\ fate # NoFate => result = FateOf(job, Get(executions, job) + 1)

-----------------------------------------------------------------------------
(* Repo_miner.__init__: the snapshot of the completed names and the three   *)
(* fill_quota calls, in the order Java, Python, C++.                          *)
NewRun ==
  /\ pc = "idle"
  /\ crawl_pc \in { "idle", "done", "saved" }
  /\ runs < env.runs
  /\ runs' = runs + 1
  /\ already_mined' = get_completed_project_names
  /\ \E a \in fill_quota(get_projects_to_mine("Java"), already_mined', env.quota),
        b \in fill_quota(get_projects_to_mine("Python"), already_mined', env.quota),
        c \in fill_quota(get_projects_to_mine("C++"), already_mined', env.quota) :
       projects' = a \o b \o c
  /\ pc' = "prep"
  /\ prepared' = {}
  /\ jobs' = << >>
  /\ future_to_job' = << >>
  /\ shards_remaining' = << >>
  /\ project_errors' = << >>
  /\ retry_counts' = << >>
  /\ stop_event' = FALSE
  /\ interrupted' = FALSE
  /\ timeouts_left' = env.timeouts
  /\ fate' = NoFate
  /\ executions' = << >>
  /\ failed' = {}
  /\ marks' = << >>
  /\ lookups' = 0
  /\ lookup_limited' = FALSE
  /\ late_pending' = 0
  /\ late_started' = 0
  /\ late_mined' = 0
  /\ UNCHANGED << repos, completed, env, q_in, q_out, crawl_vars, worker_vars, rest_vars >>

(* prepare_job, lines 27-42: a C++ project with a URL has its creation date  *)
(* looked up; the URLs of the model are GitHub URLs.                         *)
LooksUp(project) == project.language = "C++" /\ project.repo_url # ""

(* The status codes the lookup is answered with when the rate limit may be   *)
(* exhausted.                                                                *)
LookupStatuses == { 200, 403 }

(* run(), phase 1: prepare_job of self.projects[i] has run, with its lookup  *)
(* answered by the given status, and its future is consumed; its plan is     *)
(* appended to jobs, or it raised and is only reported. Any status but 200   *)
(* leaves the start year at its default.                                     *)
PrepareDone(i, now, raised, status_code) ==
  /\ pc = "prep"
  /\ i \in DOMAIN projects
  /\ i \notin prepared
  /\ prepared' = prepared \cup {i}
  /\ jobs' = IF raised THEN jobs ELSE jobs \o prepare_job(projects[i], now)
  /\ lookups' = IF LooksUp(projects[i]) THEN lookups + 1 ELSE lookups
  /\ lookup_limited' = (lookup_limited \/ (LooksUp(projects[i]) /\ status_code \in { 403, 429 }))
  /\ UNCHANGED << repos, completed, env, pc, runs, already_mined, projects, future_to_job,
                  shards_remaining, project_errors, retry_counts, stop_event, interrupted,
                  timeouts_left, fate, executions, failed, marks, q_in, q_out,
                  crawl_vars, late_vars, worker_vars, rest_vars >>

(* run(), lines 84-86: nothing was planned. *)
NoJobsReturn ==
  /\ pc = "prep"
  /\ prepared = DOMAIN projects
  /\ jobs = << >>
  /\ pc' = "idle"
  /\ UNCHANGED << repos, completed, env, runs, already_mined, projects, prepared, jobs,
                  future_to_job, shards_remaining, project_errors, retry_counts, stop_event,
                  interrupted, timeouts_left, fate, executions, failed, marks, q_in, q_out,
                  crawl_vars, plan_vars, late_vars, worker_vars, rest_vars >>

(* run(), lines 89-120: the counters are set up and every planned shard is   *)
(* submitted.                                                                *)
StartMining(f) ==
  /\ pc = "prep"
  /\ prepared = DOMAIN projects
  /\ jobs # << >>
  /\ shards_remaining' = CountShards(jobs, << >>)
  /\ project_errors' = << >>
  /\ retry_counts' = << >>
  /\ future_to_job' = jobs
  /\ fate' = f
  /\ pc' = "mining"
  /\ UNCHANGED << repos, completed, env, runs, already_mined, projects, prepared, jobs,
                  stop_event, interrupted, timeouts_left, executions, failed, marks,
                  q_in, q_out,
                  crawl_vars, plan_vars, late_vars, worker_vars, rest_vars >>

(* run(), lines 126-207: the future at position i of the live set is done    *)
(* with the given result and the controller processes it.                    *)
ProcessResult(i, result) ==
  /\ pc = "mining"
  /\ i \in DOMAIN future_to_job
  /\ i <= env.ahead
  /\ MayReturn(i, result)
  /\ LET job == future_to_job[i]
         c   == Handle(Controller, i, result)
     IN  /\ future_to_job' = c.future_to_job
         /\ shards_remaining' = c.shards_remaining
         /\ project_errors' = c.project_errors
         /\ retry_counts' = c.retry_counts
         /\ completed' = c.completed
         /\ marks' = c.marks
         /\ executions' = Put(executions, job, Get(executions, job) + 1)
         /\ failed' = IF \/ result \in { "ERROR", "EXC" }
                         \/ result = "TIMEOUT" /\ Len(c.future_to_job) < Len(future_to_job)
                        THEN failed \cup {job.p_name}
                        ELSE failed
         /\ timeouts_left' = IF result = "TIMEOUT" THEN timeouts_left - 1 ELSE timeouts_left
  /\ UNCHANGED << repos, env, pc, runs, already_mined, projects, prepared, jobs, stop_event,
                  interrupted, fate, q_in, q_out,
                  crawl_vars, plan_vars, late_vars, worker_vars, rest_vars >>

(* run(), lines 209-214: the operator interrupts the loop; the stop event is *)
(* set and the live futures are cancelled.                                   *)
(* f.cancel() fails for the calls the executor has handed to its processes:  *)
(* some of them run already, up to late of them have not started.            *)
KeyboardInterrupt(late) ==
  /\ pc = "mining"
  /\ future_to_job # << >>
  /\ late <= Len(future_to_job)
  /\ stop_event' = TRUE
  /\ interrupted' = TRUE
  /\ pc' = "closing"
  /\ late_pending' = late
  /\ UNCHANGED << repos, completed, env, runs, already_mined, projects, prepared, jobs,
                  future_to_job, shards_remaining, project_errors, retry_counts,
                  timeouts_left, fate, executions, failed, marks, q_in, q_out,
                  late_started, late_mined, crawl_vars, plan_vars, worker_vars, rest_vars >>

(* shards_remaining[p_name] -= 1 *)
Decrement(c, p_name) ==
  [c EXCEPT !.shards_remaining =
              Put(c.shards_remaining, p_name, Get(c.shards_remaining, p_name) - 1)]

(* The body of "for future in done" cut short by the interrupt: after the    *)
(* pop of line 129, or after the decrement of line 191 of a result that is   *)
(* no timeout.                                                               *)
Cuts == { "popped", "decremented" }

HandleCut(c, i, result, cut) ==
  LET job_data == c.future_to_job[i]
      c0       == [c EXCEPT !.future_to_job = Pop(c.future_to_job, i)]
  IN  IF cut = "decremented" /\ result \in { "OK", "NOCOMMITS", "ERROR" }
        THEN Decrement(IF result = "ERROR"
                         THEN [c0 EXCEPT !.project_errors =
                                           Put(c0.project_errors, job_data.p_name, TRUE)]
                         ELSE c0,
                       job_data.p_name)
        ELSE c0

(* run(), lines 129-214: the operator interrupts the loop while it processes *)
(* the result of the future at position i; what the body has done up to the  *)
(* cut stays, the rest of it is not run.                                     *)
KeyboardInterruptInBody(i, result, cut, late) ==
  /\ pc = "mining"
  /\ i \in DOMAIN future_to_job
  /\ i <= env.ahead
  /\ MayReturn(i, result)
  /\ LET c == HandleCut(Controller, i, result, cut)
     IN  /\ future_to_job' = c.future_to_job
         /\ shards_remaining' = c.shards_remaining
         /\ project_errors' = c.project_errors
         /\ late <= Len(c.future_to_job)
  /\ stop_event' = TRUE
  /\ interrupted' = TRUE
  /\ pc' = "closing"
  /\ late_pending' = late
  /\ UNCHANGED << repos, completed, env, runs, already_mined, projects, prepared, jobs,
                  retry_counts, timeouts_left, fate, executions, failed, marks, q_in, q_out,
                  late_started, late_mined, crawl_vars, plan_vars, worker_vars, rest_vars >>

(* After the interrupt a pool process starts a call that was not cancelled:  *)
(* mine_repo runs its entry check on the stop event.                         *)
LateWorker ==
  /\ pc = "closing"
  /\ late_pending > 0
  /\ late_pending' = late_pending - 1
  /\ late_started' = late_started + 1
  /\ late_mined' = IF WorkerStops(stop_event) THEN late_mined ELSE late_mined + 1
  /\ UNCHANGED << repos, completed, env, pc, runs, already_mined, projects, prepared, jobs,
                  future_to_job, shards_remaining, project_errors, retry_counts, stop_event,
                  interrupted, timeouts_left, fate, executions, failed, marks, q_in, q_out,
                  crawl_vars, plan_vars, worker_vars, rest_vars >>

(* run(), lines 216-221: the loop is over, the indexes are ensured and run() *)
(* returns: its locals are gone.                                             *)
FinishRun ==
  /\ \/ pc = "mining" /\ future_to_job = << >>
     \/ pc = "closing" /\ late_pending = 0
  /\ pc' = "idle"
  /\ prepared' = {}
  /\ jobs' = << >>
  /\ future_to_job' = << >>
  /\ shards_remaining' = << >>
  /\ project_errors' = << >>
  /\ retry_counts' = << >>
  /\ fate' = NoFate
  /\ executions' = << >>
  /\ failed' = {}
  /\ marks' = << >>
  /\ lookups' = 0
  /\ lookup_limited' = FALSE
  /\ late_started' = 0
  /\ late_mined' = 0
  /\ UNCHANGED << repos, completed, env, runs, already_mined, projects, stop_event,
                  interrupted, timeouts_left, q_in, q_out, late_pending,
                  crawl_vars, worker_vars, rest_vars >>

(* The fates the environment may fix when the mining starts. *)
Fates == IF env.fix_fate THEN [DOMAIN jobs -> FateChoices] ELSE { NoFate }

Next ==
  \/ NewRun
  \/ \E i \in DOMAIN projects, now \in env.nows, raised \in BOOLEAN,
        status_code \in env.statuses : PrepareDone(i, now, raised, status_code)
  \/ NoJobsReturn
  \/ \E f \in Fates : StartMining(f)
  \/ \E i \in DOMAIN future_to_job, result \in Results : ProcessResult(i, result)
  \/ \E late \in 0..env.late : KeyboardInterrupt(late)
  \/ FinishRun

(* The run with what follows an interrupt: the interrupt may arrive in the   *)
(* body of the result loop, and calls that were not cancelled start          *)
(* afterwards.                                                               *)
NextInterrupt ==
  \/ Next
  \/ \E i \in DOMAIN future_to_job, result \in Results, cut \in Cuts, late \in 0..env.late :
       KeyboardInterruptInBody(i, result, cut, late)
  \/ LateWorker

(* No computation on dates is followed. *)
NoCall == [kind |-> "none"]

NotReturned == [returned |-> FALSE, jobs |-> << >>]

InitCall ==
  /\ t_in = NoCall
  /\ t_out = NotReturned

(* No unit of work is followed. *)
InitStore ==
  /\ commit_store = << >>
  /\ relevant = {}
  /\ units = << >>

(* sort_by_commit_count is not called. *)
NoReturn == 0 - 1

InitSorter ==
  /\ sort_pc = "idle"
  /\ sort_tasks = << >>
  /\ sort_done = << >>
  /\ scored_projects = << >>
  /\ aborted = FALSE
  /\ sort_db = [bulk_write |-> 0, create_index |-> 0]
  /\ sort_ret = NoReturn

InitRest == InitCall /\ InitStore /\ InitSorter

(* The state of the miner before the first run: nothing planned. *)
InitLocals ==
  /\ pc = "idle"
  /\ runs = 0
  /\ already_mined = {}
  /\ projects = << >>
  /\ prepared = {}
  /\ jobs = << >>
  /\ future_to_job = << >>
  /\ shards_remaining = << >>
  /\ project_errors = << >>
  /\ retry_counts = << >>
  /\ stop_event = FALSE
  /\ interrupted = FALSE
  /\ timeouts_left = 0
  /\ fate = NoFate
  /\ executions = << >>
  /\ failed = {}
  /\ marks = << >>
  /\ q_in = [candidates |-> << >>, mined |-> {}, target_quota |-> 0]
  /\ q_out = [returned |-> FALSE, list |-> << >>]
  /\ lookups = 0
  /\ lookup_limited = FALSE
  /\ late_pending = 0
  /\ late_started = 0
  /\ late_mined = 0

(* The state before the first run: nothing completed, nothing planned, the   *)
(* crawler not started, no worker invocation followed.                       *)
InitRun ==
  /\ completed = {}
  /\ InitRest
  /\ InitLocals
  /\ InitCrawler
  /\ InitWorker

(* A Java project, a Python project without a URL and a C++ project; the     *)
(* unwindowed shard and the shards of the first lineage may time out.        *)
Init ==
  /\ repos = ("Java" :> << Doc("j1", "uj1", "Java") >>) @@
             ("Python" :> << Doc("p1", "", "Python") >>) @@
             ("C++" :> << Doc("c1", "uc1", "C++") >>)
  /\ env = [runs |-> 1, timeouts |-> MaxTimeouts, any_timeout |-> FALSE,
            ahead |-> MaxAhead, fix_fate |-> FALSE, nows |-> Nows,
            quota |-> TARGET_QUOTA,
            late |-> 0, statuses |-> { 200 }]
  /\ InitRun

Spec == Init /\ [][Next]_vars

(* One C++ project planned as a single yearly shard; only the shards of the  *)
(* first lineage time out, often enough to reach the depth cap and exhaust   *)
(* the retries there.                                                        *)
InitDeep ==
  /\ repos = ("Java" :> << >>) @@
             ("Python" :> << >>) @@
             ("C++" :> << Doc("c1", "uc1", "C++") >>)
  /\ env = [runs |-> 1, timeouts |-> DeepTimeouts, any_timeout |-> FALSE,
            ahead |-> DeepAhead, fix_fate |-> FALSE, nows |-> { YearSpan },
            quota |-> TARGET_QUOTA,
            late |-> 0, statuses |-> { 200 }]
  /\ InitRun

SpecDeep == InitDeep /\ [][Next]_vars

(* A Java project and a C++ project planned as two or more yearly shards;    *)
(* the outcome of every execution of every planned shard is fixed when the   *)
(* mining starts, and the results are processed in any order.                *)
InitOrder ==
  /\ repos = ("Java" :> << Doc("j1", "uj1", "Java") >>) @@
             ("Python" :> << >>) @@
             ("C++" :> << Doc("c1", "uc1", "C++") >>)
  /\ env = [runs |-> 1, timeouts |-> MaxTimeouts, any_timeout |-> TRUE,
            ahead |-> MaxAhead + MaxYears, fix_fate |-> TRUE,
            nows |-> { (MaxYears + 1) * YearSpan }, quota |-> TARGET_QUOTA,
            late |-> 0, statuses |-> { 200 }]
  /\ InitRun

SpecOrder == InitOrder /\ [][Next]_vars

-----------------------------------------------------------------------------
(* Notions the properties share. *)

(* The result loop has drained the live set. *)
MiningOver == pc = "mining" /\ future_to_job = << >>

(* The projects with at least one planned shard in this run. *)
PlannedNames == { jobs[k].p_name : k \in DOMAIN jobs }

(* The projects mark_project_as_completed was called for in this run. *)
Marked == { p \in DOMAIN marks : marks[p] > 0 }

(* The live futures of a project. *)
Live(p_name) == { i \in DOMAIN future_to_job : future_to_job[i].p_name = p_name }

-----------------------------------------------------------------------------
(* C1: when the result loop of a run is over, a project with planned shards  *)
(* has been marked completed if and only if none of its shards (planned or   *)
(* created by a split) ended without success: no permanent timeout, no       *)
(* error string, no exception raised by its future.                          *)
C1_CompletionCorrectness ==
  MiningOver => \A p \in PlannedNames : (p \in Marked) <=> (p \notin failed)

(* C2: between two results, a project with planned shards is in the          *)
(* persisted completed set if and only if its shards_remaining is 0 and its  *)
(* project_errors is false.                                                  *)
C2_MarkedIffDrainedWithoutError ==
  pc = "mining" =>
    \A p \in PlannedNames :
      (p \in completed) <=>
        (Get(shards_remaining, p) = 0 /\ ~ErrorOf(project_errors, p))

(* The run of the result loop in which the oldest live future is always the  *)
(* one processed, on the outcomes fixed in fate.                             *)
RECURSIVE FifoRun(_, _)
FifoRun(c, ex) ==
  IF c.future_to_job = << >> THEN c
  ELSE LET job == c.future_to_job[1]
       IN  FifoRun(Handle(c, 1, FateOf(job, Get(ex, job) + 1)),
                   Put(ex, job, Get(ex, job) + 1))

FifoMarked ==
  LET c == FifoRun([future_to_job |-> jobs,
                    shards_remaining |-> CountShards(jobs, << >>),
                    project_errors |-> << >>, retry_counts |-> << >>,
                    completed |-> already_mined, marks |-> << >>], << >>)
  IN  { p \in DOMAIN c.marks : c.marks[p] > 0 }

(* C3: with the outcome of every shard execution fixed, the projects marked  *)
(* completed when the loop is over are those marked when the results are     *)
(* processed in submission order: the order of processing does not matter.   *)
C3_OrderIndependent ==
  (fate # NoFate /\ MiningOver) => Marked = FifoMarked

(* C4: between two results of a run that was not interrupted,                *)
(* shards_remaining[p] is the number of live futures of p, for every         *)
(* project, and is never negative.                                           *)
C4_RemainingCountsLive ==
  pc = "mining" =>
    \A p \in AllNames :
      /\ Get(shards_remaining, p) = Cardinality(Live(p))
      /\ Get(shards_remaining, p) >= 0

(* After a split one child ended without success (an error, an exception)   *)
(* and another project is still outstanding.                                 *)
C4_Witness ==
  /\ pc = "mining"
  /\ \E p, q \in AllNames :
       /\ p # q
       /\ Get(shards_remaining, p) = SUB_SHARDS - 1
       /\ Get(shards_remaining, q) = 1
       /\ p \in failed

(* The children a split step appended to the live set. *)
NewChildren ==
  [k \in 1..SUB_SHARDS |-> future_to_job'[Len(future_to_job) - 1 + k]]

(* The step processes a TIMED OUT result of the future at position i and     *)
(* the live set grows: the controller split that shard.                      *)
SplitsAt(i) ==
  ProcessResult(i, "TIMEOUT") /\ Len(future_to_job') > Len(future_to_job)

(* C5: a split of a shard of project p at depth d submits exactly SUB_SHARDS *)
(* children in that step, each with depth d + 1 and the parent's name, URL   *)
(* and language; shards_remaining[p] grows by SUB_SHARDS - 1; the parent is  *)
(* not submitted again and no other live future is touched.                  *)
C5_SplitBookkeeping ==
  [][\A i \in DOMAIN future_to_job :
       SplitsAt(i) =>
         LET parent == future_to_job[i]
         IN  /\ Len(future_to_job') = Len(future_to_job) - 1 + SUB_SHARDS
             /\ SubSeq(future_to_job', 1, Len(future_to_job) - 1) = Pop(future_to_job, i)
             /\ \A k \in 1..SUB_SHARDS :
                  /\ NewChildren[k].depth = parent.depth + 1
                  /\ NewChildren[k].p_name = parent.p_name
                  /\ NewChildren[k].url = parent.url
                  /\ NewChildren[k].language = parent.language
                  /\ NewChildren[k] # parent
             /\ Get(shards_remaining', parent.p_name) =
                  Get(shards_remaining, parent.p_name) + SUB_SHARDS - 1
             /\ parent.depth = 0 => \A k \in 1..SUB_SHARDS : NewChildren[k].depth = 1
    ]_vars

(* The twelve children of a depth-0 split are live. *)
C5_Witness ==
  /\ pc = "mining"
  /\ Cardinality({ i \in DOMAIN future_to_job : future_to_job[i].depth = 1 }) = SUB_SHARDS
  /\ \E j \in DOMAIN retry_counts : j.depth = 0 /\ retry_counts[j] = 2

(* C6: every live shard has 0 <= depth <= MAX_SPLIT_DEPTH; a shard at        *)
(* MAX_SPLIT_DEPTH that times out is not split, whatever its retry count;    *)
(* the children of a split are one level below their parent.                 *)
C6_DepthCap ==
  /\ [](\A i \in DOMAIN future_to_job : future_to_job[i].depth \in 0..MAX_SPLIT_DEPTH)
  /\ [][\A i \in DOMAIN future_to_job :
          ProcessResult(i, "TIMEOUT") =>
            /\ future_to_job[i].depth = MAX_SPLIT_DEPTH =>
                 Len(future_to_job') <= Len(future_to_job)
            /\ Len(future_to_job') > Len(future_to_job) =>
                 \A k \in 1..SUB_SHARDS :
                   NewChildren[k].depth = future_to_job[i].depth + 1
       ]_vars

(* A shard at the depth cap timed out twice and is live again, unsplit. *)
C6_Witness ==
  \E i \in DOMAIN future_to_job :
    /\ future_to_job[i].depth = MAX_SPLIT_DEPTH
    /\ Get(retry_counts, future_to_job[i]) = 2

(* C7: a shard at MAX_SPLIT_DEPTH is executed at most MAX_RETRIES + 1 times; *)
(* each of its first MAX_RETRIES timeouts resubmits it unchanged and leaves  *)
(* the counters of its project alone; the timeout after that removes it,     *)
(* decrements shards_remaining[p] by one and sets project_errors[p].         *)
C7_RetryThenFail ==
  /\ [](\A job \in DOMAIN executions :
          job.depth = MAX_SPLIT_DEPTH => executions[job] <= MAX_RETRIES + 1)
  /\ [][\A i \in DOMAIN future_to_job :
          (ProcessResult(i, "TIMEOUT") /\ future_to_job[i].depth = MAX_SPLIT_DEPTH) =>
            LET job == future_to_job[i]
                p   == job.p_name
                n   == Get(executions, job) + 1
            IN  IF n <= MAX_RETRIES
                  THEN /\ future_to_job' = Append(Pop(future_to_job, i), job)
                       /\ Get(shards_remaining', p) = Get(shards_remaining, p)
                       /\ ErrorOf(project_errors', p) = ErrorOf(project_errors, p)
                  ELSE /\ future_to_job' = Pop(future_to_job, i)
                       /\ Get(shards_remaining', p) = Get(shards_remaining, p) - 1
                       /\ ErrorOf(project_errors', p)
       ]_vars

(* A shard at the depth cap was executed MAX_RETRIES + 1 times and failed    *)
(* its project.                                                              *)
C7_Witness ==
  \E job \in DOMAIN executions :
    /\ job.depth = MAX_SPLIT_DEPTH
    /\ executions[job] = MAX_RETRIES + 1
    /\ ErrorOf(project_errors, job.p_name)
    /\ \A i \in DOMAIN future_to_job : future_to_job[i] # job

(* C8: a shard with a window and depth < MAX_SPLIT_DEPTH is executed at most *)
(* twice; its first timeout resubmits the same job with retry count 1; its   *)
(* second timeout splits it, the parent is not submitted again, and every    *)
(* child starts with retry count 0.                                          *)
C8_RetryThenSplit ==
  /\ [](\A job \in DOMAIN executions :
          (job.start # None /\ job.end # None /\ job.depth < MAX_SPLIT_DEPTH) =>
            executions[job] <= 2)
  /\ [][\A i \in DOMAIN future_to_job :
          (/\ ProcessResult(i, "TIMEOUT")
           /\ future_to_job[i].start # None
           /\ future_to_job[i].end # None
           /\ future_to_job[i].depth < MAX_SPLIT_DEPTH) =>
            LET job == future_to_job[i]
                n   == Get(executions, job) + 1
            IN  /\ n = 1 => /\ future_to_job' = Append(Pop(future_to_job, i), job)
                            /\ Get(retry_counts', job) = 1
                /\ n = 2 => /\ Len(future_to_job') = Len(future_to_job) - 1 + SUB_SHARDS
                            /\ Get(retry_counts', job) = 2
                            /\ \A k \in 1..SUB_SHARDS :
                                 /\ NewChildren[k] # job
                                 /\ NewChildren[k].start >= job.start
                                 /\ NewChildren[k].end <= job.end
                                 /\ Get(retry_counts', NewChildren[k]) = 0
                                 /\ Get(executions', NewChildren[k]) = 0
       ]_vars

(* A child with retry count 0 is live while its parent's count is 2. *)
C8_Witness ==
  \E i \in DOMAIN future_to_job, parent \in DOMAIN retry_counts :
    /\ future_to_job[i].depth = parent.depth + 1
    /\ future_to_job[i].start >= parent.start
    /\ future_to_job[i].end <= parent.end
    /\ Get(retry_counts, future_to_job[i]) = 0
    /\ retry_counts[parent] = 2
    /\ parent.depth > 0

-----------------------------------------------------------------------------
(* Several runs one after the other on the same collection: what one run     *)
(* marks completed is the next run's already_mined. No worker times out.     *)
InitResume ==
  /\ repos = ("Java" :> << Doc("j1", "uj1", "Java") >>) @@
             ("Python" :> << Doc("p1", "", "Python") >>) @@
             ("C++" :> << Doc("c1", "uc1", "C++") >>)
  /\ env = [runs |-> MaxRuns, timeouts |-> 0, any_timeout |-> FALSE,
            ahead |-> MaxAhead, fix_fate |-> FALSE, nows |-> Nows,
            quota |-> TARGET_QUOTA,
            late |-> 0, statuses |-> { 200 }]
  /\ InitRun

SpecResume == InitResume /\ [][Next]_vars

(* C10: the persisted completed set only grows, and a project that was in it *)
(* when a run started is not selected, not planned and not submitted for     *)
(* mining in that run.                                                       *)
C10_CompletedNeverRedone ==
  /\ [](\A p \in already_mined :
          /\ \A i \in DOMAIN projects : projects[i].name # p
          /\ p \notin PlannedNames
          /\ Live(p) = {}
          /\ \A job \in DOMAIN executions : job.p_name # p)
  /\ [][completed \subseteq completed']_vars

(* A later run is mining while an earlier run's project is completed. *)
C10_Witness ==
  /\ runs >= 2
  /\ pc = "mining"
  /\ future_to_job # << >>
  /\ already_mined # {}
  /\ already_mined \subseteq AllNames

-----------------------------------------------------------------------------
(* Runs under a small target quota: one more Java candidate than the quota   *)
(* and one Python candidate, names distinct as in the collection; any set of *)
(* names within the quota is completed before the first run.                 *)
CompletedIn(language) ==
  { i \in DOMAIN repos[language] : repos[language][i].name \in completed }

InitQuotaRuns ==
  /\ repos = ("Java" :> [i \in 1..(RunQuota + 1) |-> Doc("j" \o ToString(i), "uj", "Java")]) @@
             ("Python" :> << Doc("p1", "up1", "Python") >>) @@
             ("C++" :> << >>)
  /\ env = [runs |-> MaxRuns, timeouts |-> 0, any_timeout |-> FALSE,
            ahead |-> DeepAhead, fix_fate |-> FALSE, nows |-> { YearSpan },
            quota |-> RunQuota, late |-> 0, statuses |-> { 200 }]
  /\ completed \in SUBSET AllNames
  /\ \A l \in DOMAIN repos : Cardinality(CompletedIn(l)) <= env.quota
  /\ InitRest
  /\ InitLocals
  /\ InitCrawler
  /\ InitWorker

SpecQuotaRuns == InitQuotaRuns /\ [][Next]_vars

(* C11: when no category has more completed candidates than the target quota *)
(* before the first run, no category has more completed candidates than the  *)
(* target quota after any number of runs over the same candidate lists.      *)
C11_QuotaNeverExceeded ==
  \A l \in DOMAIN repos : Cardinality(CompletedIn(l)) <= env.quota

(* A later run finds a category at its quota with candidates left over, and  *)
(* the runs have completed a project.                                        *)
C11_Witness ==
  /\ runs >= 2
  /\ pc = "prep"
  /\ completed # {}
  /\ \E l \in DOMAIN repos :
       /\ Cardinality(CompletedIn(l)) = env.quota
       /\ Len(repos[l]) > env.quota
       /\ \A i \in DOMAIN projects : projects[i].language # l

-----------------------------------------------------------------------------
(* A single call of fill_quota on arguments drawn from bounded sets: lists   *)
(* of candidates with distinct names, any set of completed names, a target.  *)
QNames == 1..MaxNames

QCandidates ==
  UNION { { [i \in 1..n |-> Doc(f[i], "u", "Java")] :
              f \in { g \in [1..n -> QNames] : \A a, b \in 1..n : a # b => g[a] # g[b] } } :
          n \in 0..MaxNames }

InitQuota ==
  /\ repos = ("Java" :> << >>) @@ ("Python" :> << >>) @@ ("C++" :> << >>)
  /\ env = [runs |-> 0, timeouts |-> 0, any_timeout |-> FALSE, ahead |-> 0,
            fix_fate |-> FALSE, nows |-> {}, quota |-> 0,
            late |-> 0, statuses |-> {}]
  /\ completed = {}
  /\ pc = "idle"
  /\ runs = 0
  /\ already_mined = {}
  /\ projects = << >>
  /\ prepared = {}
  /\ jobs = << >>
  /\ future_to_job = << >>
  /\ shards_remaining = << >>
  /\ project_errors = << >>
  /\ retry_counts = << >>
  /\ stop_event = FALSE
  /\ interrupted = FALSE
  /\ timeouts_left = 0
  /\ fate = NoFate
  /\ executions = << >>
  /\ failed = {}
  /\ marks = << >>
  /\ q_in \in [candidates : QCandidates, mined : SUBSET QNames, target_quota : 0..MaxTarget]
  /\ q_out = [returned |-> FALSE, list |-> << >>]
  /\ lookups = 0
  /\ lookup_limited = FALSE
  /\ late_pending = 0
  /\ late_started = 0
  /\ late_mined = 0
  /\ InitCrawler
  /\ InitWorker
  /\ InitRest

(* fill_quota(candidates, language_name, target_quota) returns. *)
CallFillQuota ==
  /\ ~q_out.returned
  /\ \E l \in fill_quota(q_in.candidates, q_in.mined, q_in.target_quota) :
       q_out' = [returned |-> TRUE, list |-> l]
  /\ UNCHANGED << repos, completed, env, pc, runs, already_mined, projects, prepared, jobs,
                  future_to_job, shards_remaining, project_errors, retry_counts, stop_event,
                  interrupted, timeouts_left, fate, executions, failed, marks, q_in,
                  crawl_vars, plan_vars, late_vars, worker_vars, rest_vars >>

NextQuota == CallFillQuota

SpecQuota == InitQuota /\ [][NextQuota]_vars

(* The candidates of the call whose name is completed, and those whose name  *)
(* is not.                                                                   *)
QDone == { i \in DOMAIN q_in.candidates : q_in.candidates[i].name \in q_in.mined }

QOpen == { i \in DOMAIN q_in.candidates : q_in.candidates[i].name \notin q_in.mined }

(* C9: with k completed candidates and target T, fill_quota selects nothing  *)
(* when k >= T; otherwise it selects exactly min(T - k, number of candidates *)
(* not completed) candidates, none twice and none whose name is completed.   *)
C9_QuotaSelection ==
  q_out.returned =>
    LET k   == Cardinality(QDone)
        T   == q_in.target_quota
        sel == q_out.list
    IN  IF k >= T THEN sel = << >>
        ELSE /\ Len(sel) = Min(T - k, Cardinality(QOpen))
             /\ \A a, b \in DOMAIN sel : a # b => sel[a] # sel[b]
             /\ \A a \in DOMAIN sel : /\ sel[a].name \notin q_in.mined
                                     /\ sel[a] \in SeqToSet(q_in.candidates)

(* Some candidates are completed and more are open than the quota still      *)
(* needs: the selection is cut to T - k.                                     *)
C9_Witness ==
  /\ q_out.returned
  /\ Cardinality(QDone) > 0
  /\ Cardinality(QDone) < q_in.target_quota
  /\ Len(q_out.list) = q_in.target_quota - Cardinality(QDone)
  /\ Len(q_out.list) < Cardinality(QOpen)

-----------------------------------------------------------------------------
(* A collection without projects and an environment without runs. *)
NoRepos == ("Java" :> << >>) @@ ("Python" :> << >>) @@ ("C++" :> << >>)

NoRuns ==
  [runs |-> 0, timeouts |-> 0, any_timeout |-> FALSE, ahead |-> 0, fix_fate |-> FALSE,
   nows |-> {}, quota |-> 0, late |-> 0, statuses |-> {}]

(* A single call of _check_rate_limit on a stop event and a response drawn   *)
(* from the bounded sets.                                                    *)
InitRateLimit ==
  /\ repos = NoRepos
  /\ env = NoRuns
  /\ completed = {}
  /\ InitRest
  /\ InitLocals
  /\ InitWorker
  /\ check_in \in [event : BOOLEAN, response : Responses]
  /\ crawler_stop_event = check_in.event
  /\ crawl_pc = "idle"
  /\ tasks = << >>
  /\ all_candidates = 0
  /\ results = 0
  /\ check_out = [returned |-> FALSE, raised |-> Returns]

(* self._check_rate_limit(response) returns or raises. *)
CallCheckRateLimit ==
  /\ ~check_out.returned
  /\ LET c == check_rate_limit(crawler_stop_event, check_in.response)
     IN  /\ crawler_stop_event' = c.event
         /\ check_out' = [returned |-> TRUE, raised |-> c.raised]
  /\ UNCHANGED << crawl_pc, tasks, all_candidates, results, check_in, mine_vars, worker_vars, rest_vars >>

NextRateLimit == CallCheckRateLimit

SpecRateLimit == InitRateLimit /\ [][NextRateLimit]_vars

(* The Remaining header of the response is present and reads as the number 0. *)
RemainingIsZero(response) ==
  /\ Remaining \in DOMAIN response.headers
  /\ IsIntLiteral(response.headers[Remaining])
  /\ int(response.headers[Remaining]) = 0

(* C12: _check_rate_limit on a response: with the stop event set it raises   *)
(* RateLimitExceededError; otherwise, with status 403 or 429 or a Remaining  *)
(* header equal to 0, it sets the stop event and raises                      *)
(* RateLimitExceededError; otherwise it returns and leaves the stop event    *)
(* unset.                                                                    *)
C12_CheckRateLimit ==
  check_out.returned =>
    IF check_in.event
      THEN check_out.raised = RateLimitExceededError
      ELSE IF \/ check_in.response.status_code \in { 403, 429 }
              \/ RemainingIsZero(check_in.response)
             THEN crawler_stop_event /\ check_out.raised = RateLimitExceededError
             ELSE ~crawler_stop_event /\ check_out.raised = Returns

-----------------------------------------------------------------------------
(* The crawler alone. *)
InitCrawl ==
  /\ repos = NoRepos
  /\ env = NoRuns
  /\ InitRun

SpecCrawl == InitCrawl /\ [][NextCrawl]_vars

(* C13: a call of _fetch_page or process_repo that started with the stop     *)
(* event set, and a get_commit_count that started with it set, has sent no   *)
(* request, under every interleaving of the pool threads; such a _fetch_page *)
(* hands back no candidate and such a process_repo hands back None.          *)
C13_NoRequestAfterStop ==
  \A t \in DOMAIN tasks :
    /\ (tasks[t].late \/ tasks[t].late_in) => tasks[t].sent = 0
    /\ tasks[t].late => /\ tasks[t].pc \in { "entry", "done", "taken", "dropped" }
                        /\ tasks[t].found = 0

(* A call that was queued when another call's response set the stop event    *)
(* started afterwards and is over without a request.                         *)
C13_Witness ==
  \E t, u \in DOMAIN tasks :
    /\ tasks[t].late
    /\ tasks[t].pc = "done"
    /\ tasks[t].sent = 0
    /\ ~tasks[u].late
    /\ tasks[u].sent = 1
    /\ crawler_stop_event

-----------------------------------------------------------------------------
(* The crawler, then a run of the miner on a collection with one C++         *)
(* project, whose creation-date lookup may be answered with a rate-limit     *)
(* status.                                                                   *)
InitPipeline ==
  /\ repos = ("Java" :> << >>) @@
             ("Python" :> << >>) @@
             ("C++" :> << Doc("c1", "uc1", "C++") >>)
  /\ env = [runs |-> 1, timeouts |-> 0, any_timeout |-> FALSE,
            ahead |-> DeepAhead, fix_fate |-> FALSE, nows |-> { YearSpan },
            quota |-> TARGET_QUOTA, late |-> 0, statuses |-> LookupStatuses]
  /\ InitRun

NextPipeline == NextCrawl \/ Next

SpecPipeline == InitPipeline /\ [][NextPipeline]_vars

(* C14: once a stop signal is set (the crawler's stop event or the mining    *)
(* run's), the planner sends no further creation-date lookup.                *)
C14_NoLookupAfterStop ==
  [][(crawler_stop_event \/ stop_event) => lookups' <= lookups]_vars

(* C15: a stop event that is set stays set: no step clears the crawler's     *)
(* stop event, and no step of a run clears the stop event of that run.       *)
C15_StopIsTerminal ==
  [][/\ crawler_stop_event => crawler_stop_event'
     /\ (stop_event /\ runs' = runs) => stop_event'
    ]_vars

(* The crawl tripped its stop event and the run after it was interrupted. *)
C15_Witness ==
  /\ crawler_stop_event
  /\ stop_event
  /\ interrupted
  /\ pc = "closing"

(* C16: the stop signal is one: while the run mines, the stop event the      *)
(* workers check at entry is set whenever the crawler's stop event is set or *)
(* a creation-date lookup of the run was answered with a rate-limit status.  *)
C16_SingleStopSignal ==
  (pc = "mining" /\ (crawler_stop_event \/ lookup_limited)) => stop_event

-----------------------------------------------------------------------------
(* A run that may be interrupted anywhere in its result loop: a Java project *)
(* and a C++ project, shards of the first lineage may time out.              *)
InitInterrupt ==
  /\ repos = ("Java" :> << Doc("j1", "uj1", "Java") >>) @@
             ("Python" :> << >>) @@
             ("C++" :> << Doc("c1", "uc1", "C++") >>)
  /\ env = [runs |-> 1, timeouts |-> MaxTimeouts, any_timeout |-> FALSE,
            ahead |-> DeepAhead, fix_fate |-> FALSE, nows |-> { YearSpan },
            quota |-> TARGET_QUOTA, late |-> MaxLate, statuses |-> { 200 }]
  /\ InitRun

SpecInterrupt == InitInterrupt /\ [][NextInterrupt]_vars

(* C17: once the interrupt is handled, in the rest of the run the controller *)
(* submits nothing (the live set is left as it is until run() returns),      *)
(* processes no result, marks no project and leaves the completed store as   *)
(* it is; every worker invocation that starts afterwards returns without     *)
(* mining; wherever in the loop the interrupt arrived.                       *)
C17_InterruptStopsWork ==
  /\ [](late_mined = 0)
  /\ [][(interrupted /\ runs' = runs) =>
          /\ completed' = completed
          /\ pc' \in { "closing", "idle" }
          /\ pc' = "closing" => /\ future_to_job' = future_to_job
                                /\ marks' = marks
                                /\ executions' = executions
       ]_vars

(* The interrupt arrived in the loop body after a project had been marked    *)
(* and a shard had been submitted again; a call that was not cancelled has   *)
(* started since and the other project is still unfinished.                  *)
C17_Witness ==
  /\ pc = "closing"
  /\ late_started > 0
  /\ late_pending = 0
  /\ completed # {}
  /\ future_to_job # << >>
  /\ \E p \in AllNames : Get(shards_remaining, p) > Cardinality(Live(p))
  /\ \E job \in DOMAIN retry_counts : retry_counts[job] > 0

-----------------------------------------------------------------------------
(* One invocation of mine_repo on arguments drawn from the bounded sets, its *)
(* unit of work doing any of the things it may do. The process runs on and   *)
(* its alarm goes off when its time is up: every step that stays possible    *)
(* is taken in the end.                                                      *)
InitWorkerCall ==
  /\ repos = NoRepos
  /\ env = NoRuns
  /\ completed = {}
  /\ InitRest
  /\ InitLocals
  /\ InitCrawler
  /\ w_args \in [raw_url : RawUrls, stop_event : BOOLEAN]
  /\ w_work \in WorkKinds
  /\ w_pc = "called"
  /\ w_alarm = FALSE
  /\ w_result = NoResult
  /\ received = NotReceived

SpecWorker == InitWorkerCall /\ [][NextWorker]_vars /\ WF_vars(NextWorker)

-----------------------------------------------------------------------------
(* C19: in a run mark_project_as_completed is called at most once for a      *)
(* project, however its shards were retried or split; no result of a project *)
(* is processed once its shards_remaining is 0, and a count that is 0 stays  *)
(* 0 for the rest of the result loop.                                        *)
C19_MarkedOnce ==
  /\ [](\A p \in DOMAIN marks : marks[p] <= 1)
  /\ [][\A i \in DOMAIN future_to_job, result \in Results :
          ProcessResult(i, result) => Get(shards_remaining, future_to_job[i].p_name) > 0
       ]_vars
  /\ [][\A p \in PlannedNames :
          (pc = "mining" /\ pc' = "mining" /\ Get(shards_remaining, p) = 0) =>
            Get(shards_remaining', p) = 0
       ]_vars

(* A project whose shard was retried and split is marked, once, while the    *)
(* other project is still live.                                              *)
C19_Witness ==
  /\ pc = "mining"
  /\ \E p \in Marked :
       /\ marks[p] = 1
       /\ Get(shards_remaining, p) = 0
       /\ \E job \in DOMAIN retry_counts : job.p_name = p /\ retry_counts[job] = 2
       /\ \E job \in DOMAIN executions : job.p_name = p /\ job.depth = 1
  /\ future_to_job # << >>

-----------------------------------------------------------------------------
(* The result loop goes on as long as a live future is done: a Java project  *)
(* and a C++ project, shards of the first lineage may time out.              *)
Drain == \E i \in DOMAIN future_to_job, result \in Results : ProcessResult(i, result)

InitFail ==
  /\ repos = ("Java" :> << Doc("j1", "uj1", "Java") >>) @@
             ("Python" :> << >>) @@
             ("C++" :> << Doc("c1", "uc1", "C++") >>)
  /\ env = [runs |-> 1, timeouts |-> MaxTimeouts, any_timeout |-> FALSE,
            ahead |-> DeepAhead, fix_fate |-> FALSE, nows |-> Nows,
            quota |-> TARGET_QUOTA, late |-> 0, statuses |-> { 200 }]
  /\ InitRun

SpecFail == InitFail /\ [][Next]_vars /\ WF_vars(Drain)

-----------------------------------------------------------------------------
(* The unit of work of the invocation failed by itself, or the invocation    *)
(* had no usable URL: its outcome is an error that is no timeout.            *)
WorkFailed ==
  /\ ~WorkerStops(w_args.stop_event)
  /\ \/ clean_url(w_args.raw_url) = ""
     \/ w_work.kind = "raises" /\ w_result # TimedOut

(* C21: an outcome that is an error other than a timeout is taken by the     *)
(* controller for an error on its first occurrence, the result for which it  *)
(* sets project_errors and decrements shards_remaining without a retry or a  *)
(* split.                                                                    *)
C21_ErrorIsTerminal ==
  (WorkFailed /\ received # NotReceived) => received = "ERROR"

-----------------------------------------------------------------------------
(* Either one call of prepare_job for a C++ project with a usable URL is     *)
(* followed: the lookup comes to any of its outcomes, a creation year lies   *)
(* in the years the model looks at and before now, and now is no 1 January.  *)
(* Or a run of the miner is followed, with a Java and a C++ project whose    *)
(* planning may raise.                                                       *)
PlanYearsSet == DEFAULT_START_YEAR..(DEFAULT_START_YEAR + PlanYears - 1)

PlanDates == 1..(datetime(DEFAULT_START_YEAR + PlanYears) - 1)

CppDoc == Doc("c1", "https://github.com/a/c1", "C++")

PrepareInputs ==
  { c \in [kind : { "prepare_job" }, lookup : Lookups, created_year : PlanYearsSet,
           now : PlanDates] :
      /\ c.lookup # "created_at" => c.created_year = DEFAULT_START_YEAR
      /\ datetime(c.created_year) < c.now
      /\ c.now # datetime(YearOf(c.now)) }

InitPlan ==
  /\ repos = ("Java" :> << Doc("j1", "uj1", "Java") >>) @@
             ("Python" :> << >>) @@
             ("C++" :> << Doc("c1", "uc1", "C++") >>)
  /\ env = [runs |-> 1, timeouts |-> 0, any_timeout |-> FALSE,
            ahead |-> DeepAhead, fix_fate |-> FALSE, nows |-> Nows,
            quota |-> TARGET_QUOTA, late |-> 0, statuses |-> { 200 }]
  /\ completed = {}
  /\ InitLocals
  /\ InitCrawler
  /\ InitWorker
  /\ InitStore
  /\ InitSorter
  /\ t_in \in PrepareInputs \cup { NoCall }
  /\ t_out = NotReturned

PrepareCall ==
  /\ t_in.kind = "prepare_job"
  /\ ~t_out.returned
  /\ t_out' = [returned |-> TRUE,
               jobs |-> prepare_cpp_job(CppDoc, t_in.lookup, t_in.created_year, t_in.now)]
  /\ UNCHANGED << t_in, store_vars, sort_vars, mine_vars, crawl_vars, worker_vars >>

NextPlan ==
  \/ PrepareCall
  \/ t_in = NoCall /\ Next

SpecPlan == InitPlan /\ [][NextPlan]_vars

(* C22: for a C++ project created in year Y the call returns one shard per   *)
(* calendar year from Y to the current year, current year - Y + 1 of them,   *)
(* the i-th from 1 January of year Y + i to 1 January of the next year, the  *)
(* last one ending now, all of depth 0.                                      *)
C22_OneShardPerCalendarYear ==
  (t_out.returned /\ t_in.lookup = "created_at") =>
    LET Y == t_in.created_year
        n == YearOf(t_in.now) - Y + 1
    IN  /\ Len(t_out.jobs) = n
        /\ \A i \in DOMAIN t_out.jobs :
             /\ t_out.jobs[i].depth = 0
             /\ t_out.jobs[i].start = datetime(Y + i - 1)
             /\ t_out.jobs[i].end = IF i = n THEN t_in.now ELSE datetime(Y + i)

(* A planning step of the run in which prepare_job raised for the project at *)
(* position i.                                                               *)
PrepareRaises(i) ==
  \E now \in env.nows, status_code \in env.statuses : PrepareDone(i, now, TRUE, status_code)

(* C23: whatever the creation-date lookup does, prepare_job returns a list   *)
(* of depth-0 shards that is not empty and that starts at 1 January 2000     *)
(* when no creation year was obtained; a prepare_job that raises leaves the  *)
(* shards planned for the other projects as they are, the planning goes on,  *)
(* and every planned shard is submitted when the mining starts.              *)
C23_PlanningNeverAborts ==
  /\ [](t_out.returned =>
          /\ t_out.jobs # << >>
          /\ \A i \in DOMAIN t_out.jobs : t_out.jobs[i].depth = 0
          /\ t_in.lookup # "created_at" =>
                t_out.jobs[1].start = datetime(DEFAULT_START_YEAR))
  /\ [][\A i \in DOMAIN projects :
          PrepareRaises(i) => (jobs' = jobs /\ pc' = "prep" /\ prepared' = prepared \cup { i })
       ]_vars
  /\ [][(pc = "prep" /\ pc' = "mining") => (future_to_job' = jobs /\ jobs # << >>)]_vars

(* The lookup raised and the call returned yearly shards from 2000 on. *)
C23_Witness ==
  /\ t_out.returned
  /\ t_in.lookup = "raises"
  /\ Len(t_out.jobs) > 1
  /\ t_out.jobs[1].start = datetime(DEFAULT_START_YEAR)
  /\ t_out.jobs[1].depth = 0

-----------------------------------------------------------------------------
(* Two adjacent shards of one project in the worker pool: any of the commits *)
(* may be stored already and any of them may touch a file worth keeping; the *)
(* units of work run in any interleaving, may be cut short by their alarm    *)
(* and are mined again after they returned.                                  *)
StoreOf(stored) == [h \in stored |-> 1]

InitShards ==
  /\ repos = NoRepos
  /\ env = NoRuns
  /\ completed = {}
  /\ InitLocals
  /\ InitCrawler
  /\ InitWorker
  /\ InitCall
  /\ InitSorter
  /\ \E stored \in SUBSET Hashes : commit_store = StoreOf(stored)
  /\ relevant \in SUBSET Hashes
  /\ units = [u \in Units |-> IdleUnit]

SpecShards == InitShards /\ [][NextStore]_vars

C30_NoCommitStoredTwice ==
  \A h \in DOMAIN commit_store : commit_store[h] <= 1

-----------------------------------------------------------------------------
(* One call of sort_by_commit_count over up to MaxSorted projects whose      *)
(* requests come to anything; the pool threads finish in any order.          *)
InitSort ==
  /\ repos = NoRepos
  /\ env = NoRuns
  /\ completed = {}
  /\ InitLocals
  /\ InitCrawler
  /\ InitWorker
  /\ InitCall
  /\ InitStore
  /\ sort_pc = "called"
  /\ \E n \in 0..MaxSorted : sort_tasks \in [1..n -> [kind : SortKinds, ran : { FALSE }]]
  /\ sort_done = << >>
  /\ scored_projects = << >>
  /\ aborted = FALSE
  /\ sort_db = [bulk_write |-> 0, create_index |-> 0]
  /\ sort_ret = NoReturn

SpecSort == InitSort /\ [][NextSort]_vars

(* An _analyze_project call that ran raised. *)
RaisedInPool ==
  \E t \in DOMAIN sort_tasks :
    sort_tasks[t].ran /\ analyze_project(sort_tasks[t].kind) # "result"

(* C25: when RateLimitExceededError or another exception was raised by an    *)
(* _analyze_project call in the pool, the call returns 0 without a           *)
(* bulk_write and without a create_index, however many results it had taken; *)
(* and a call that wrote has taken the result of every project.              *)
C25_SortAllOrNothing ==
  /\ (sort_pc = "returned" /\ RaisedInPool) =>
        (sort_ret = 0 /\ sort_db.bulk_write = 0 /\ sort_db.create_index = 0)
  /\ sort_db.bulk_write <= 1
  /\ sort_db.bulk_write > 0 => (~RaisedInPool /\ Len(scored_projects) = Len(sort_tasks))

(* The call returned 0 and wrote nothing after it had taken the results of   *)
(* two projects and the third was rate limited.                              *)
C25_Witness ==
  /\ sort_pc = "returned"
  /\ Len(scored_projects) >= 2
  /\ \E t \in DOMAIN sort_tasks : sort_tasks[t].ran /\ sort_tasks[t].kind = "rate limited"
  /\ sort_ret = 0
  /\ sort_db.bulk_write = 0

-----------------------------------------------------------------------------
(* One split of a shard: its window starts at one of two instants and is of  *)
(* any length up to MaxWindow, an instant being the resolution of the dates  *)
(* (a microsecond).                                                          *)
SplitStarts == { 0, 7 }

InitSplit ==
  /\ repos = NoRepos
  /\ env = NoRuns
  /\ completed = {}
  /\ InitLocals
  /\ InitCrawler
  /\ InitWorker
  /\ InitStore
  /\ InitSorter
  /\ \E start \in SplitStarts, length \in 1..MaxWindow :
       t_in = [kind |-> "split", job |-> Job("c1", "uc1", start, start + length, "C++", 0)]
  /\ t_out = NotReturned

SplitCall ==
  /\ t_in.kind = "split"
  /\ ~t_out.returned
  /\ t_out' = [returned |-> TRUE, jobs |-> SplitJobs(t_in.job)]
  /\ UNCHANGED << t_in, store_vars, sort_vars, mine_vars, crawl_vars, worker_vars >>

NextSplit == SplitCall

SpecSplit == InitSplit /\ [][NextSplit]_vars

(* C26: the SUB_SHARDS children of a split tile the window of the parent:    *)
(* the first starts at its start, each starts where the one before ends,     *)
(* none ends after its end, the last ends at its end, and all are of the     *)
(* same length, whatever the length of the parent window.                    *)
C26_ChildrenTileParent ==
  t_out.returned =>
    LET c == t_out.jobs
    IN  /\ Len(c) = SUB_SHARDS
        /\ c[1].start = t_in.job.start
        /\ \A i \in 2..Len(c) : c[i].start = c[i - 1].end
        /\ \A i \in DOMAIN c : c[i].end <= t_in.job.end
        /\ c[Len(c)].end = t_in.job.end
        /\ \A i \in DOMAIN c : c[i].end - c[i].start = c[1].end - c[1].start

-----------------------------------------------------------------------------
(* A C++ project planned as one yearly shard. Every execution of the shards  *)
(* of the first lineage may time out, fail or succeed; the other shards do   *)
(* not time out. Every worker returns and the loop goes on as long as a      *)
(* future is done.                                                           *)
InitTerminate ==
  /\ repos = ("Java" :> << >>) @@
             ("Python" :> << >>) @@
             ("C++" :> << Doc("c1", "uc1", "C++") >>)
  /\ env = [runs |-> 1, timeouts |-> DeepTimeouts, any_timeout |-> FALSE,
            ahead |-> DeepAhead, fix_fate |-> FALSE, nows |-> { YearSpan },
            quota |-> TARGET_QUOTA, late |-> 0, statuses |-> { 200 }]
  /\ InitRun

SpecTerminate == InitTerminate /\ [][Next]_vars /\ WF_vars(Drain)

(* A live shard that may time out. *)
MayTimeOut == \E i \in DOMAIN future_to_job : i <= env.ahead /\ FirstLineage(future_to_job[i])

(* C27: no shard is executed more than MAX_RETRIES + 1 times, a shard that   *)
(* was split is never live again, no live shard is deeper than               *)
(* MAX_SPLIT_DEPTH, and a result loop in which every worker returns comes,   *)
(* unless it is interrupted, to an empty live set with shards_remaining 0    *)
(* for every project; the timeouts are never cut off by the number of        *)
(* timeouts the model allows.                                                *)
C27_MiningTerminates ==
  /\ [](\A job \in DOMAIN executions : executions[job] <= MAX_RETRIES + 1)
  /\ [](\A i \in DOMAIN future_to_job :
          /\ future_to_job[i].depth <= MAX_SPLIT_DEPTH
          /\ ~(Get(retry_counts, future_to_job[i]) >= 2 /\ SplitCheck(2, future_to_job[i])))
  /\ []((pc = "mining" /\ MayTimeOut) => timeouts_left > 0)
  /\ (pc = "mining") ~>
       (interrupted \/ (/\ future_to_job = << >>
                        /\ \A p \in DOMAIN shards_remaining : shards_remaining[p] = 0))

(* The loop is over after the shard at the depth cap was executed            *)
(* MAX_RETRIES + 1 times.                                                    *)
C27_Witness ==
  /\ MiningOver
  /\ ~interrupted
  /\ \E job \in DOMAIN executions :
       job.depth = MAX_SPLIT_DEPTH /\ executions[job] = MAX_RETRIES + 1
  /\ \A p \in DOMAIN shards_remaining : shards_remaining[p] = 0

-----------------------------------------------------------------------------
(* A Java and a Python project, each planned as one shard without a window;  *)
(* every execution of either may time out.                                   *)
InitWhole ==
  /\ repos = ("Java" :> << Doc("j1", "uj1", "Java") >>) @@
             ("Python" :> << Doc("p1", "up1", "Python") >>) @@
             ("C++" :> << >>)
  /\ env = [runs |-> 1, timeouts |-> DeepTimeouts, any_timeout |-> TRUE,
            ahead |-> MaxAhead, fix_fate |-> FALSE, nows |-> { YearSpan },
            quota |-> TARGET_QUOTA, late |-> 0, statuses |-> { 200 }]
  /\ InitRun

SpecWhole == InitWhole /\ [][Next]_vars

(* A timeout of the windowless shard at position i is processed. *)
WholeTimesOut(i) == future_to_job[i].start = None /\ ProcessResult(i, "TIMEOUT")

(* C28: a shard without a window is never split: at no depth and at no       *)
(* retry count does the split check accept it, it stays at depth 0, each of  *)
(* its first MAX_RETRIES timeouts resubmits it unchanged and the next one    *)
(* ends it, sets project_errors and decrements shards_remaining.             *)
C28_WindowlessNeverSplit ==
  /\ [](\A depth \in 0..MAX_SPLIT_DEPTH, current_retries \in 0..(MAX_RETRIES + 1) :
          ~SplitCheck(current_retries, Job("j1", "uj1", None, None, "Java", depth)))
  /\ [](\A i \in DOMAIN future_to_job :
          future_to_job[i].start = None =>
            (future_to_job[i].end = None /\ future_to_job[i].depth = 0))
  /\ [][\A i \in DOMAIN future_to_job :
          WholeTimesOut(i) =>
            LET job == future_to_job[i]
                p   == job.p_name
            IN  IF Get(retry_counts, job) < MAX_RETRIES
                  THEN /\ future_to_job' = Append(Pop(future_to_job, i), job)
                       /\ shards_remaining' = shards_remaining
                       /\ project_errors' = project_errors
                  ELSE /\ future_to_job' = Pop(future_to_job, i)
                       /\ ErrorOf(project_errors', p)
                       /\ Get(shards_remaining', p) = Get(shards_remaining, p) - 1
       ]_vars

(* A windowless shard was executed MAX_RETRIES + 1 times, timed out every    *)
(* time and its project ended with an error.                                 *)
C28_Witness ==
  \E job \in DOMAIN executions :
    /\ job.start = None
    /\ executions[job] = MAX_RETRIES + 1
    /\ Get(retry_counts, job) = MAX_RETRIES + 1
    /\ ErrorOf(project_errors, job.p_name)
    /\ Get(shards_remaining, job.p_name) = 0

-----------------------------------------------------------------------------
(* The batch of ApacheGitHubMiner.run: the records the consumer loop has     *)
(* appended to results (line 236), which save_repo_batch is given at         *)
(* line 251.                                                                 *)
InBatch(t) ==
  /\ crawl_pc \in { "repos", "repos_break" }
  /\ tasks[t].kind = "repo"
  /\ tasks[t].pc = "taken"
  /\ tasks[t].found = 1

(* get_commit_count gave 0 on its stop path (line 185) or on its rate-limit  *)
(* path (lines 199-200).                                                     *)
ForcedByStop(t) == tasks[t].commits \in { "stop", "limit" }

(* C29: under every interleaving of the process_repo calls, a record whose   *)
(* commit count get_commit_count forced to 0 on its stop path or on its      *)
(* rate-limit path is never among the records collected for save_repo_batch, *)
(* and the stop event is set from the moment such a count exists.            *)
C29_ForcedCountNeverSaved ==
  \A t \in DOMAIN tasks :
    ForcedByStop(t) => /\ crawler_stop_event
                       /\ ~InBatch(t)

(* The loop has broken with one record collected and another call over with  *)
(* a count forced to 0: the batch about to be saved holds the first only.    *)
C29_Witness ==
  /\ crawl_pc = "repos_break"
  /\ PoolIdle
  /\ results = 1
  /\ \E t, u \in DOMAIN tasks :
       /\ InBatch(t)
       /\ tasks[t].commits = "counted"
       /\ tasks[u].pc = "done"
       /\ tasks[u].found = 1
       /\ ForcedByStop(u)

====
